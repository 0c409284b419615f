--------------------------- MODULE ContextExecution ---------------------------
(***************************************************************************)
(* Execution of the operators of a simulation context: the scheduler's     *)
(* plan and its validity flag (core/src/sim_scheduler_state.c), the calls  *)
(* sim_context_prepare_plan, sim_context_execute and the drift mode        *)
(* (core/src/sim_context.c), and the two callers that evaluate a candidate *)
(* state behind the context's back, integrator_context_drift and           *)
(* integrator_step_context (integrators/src/integrator.c).                 *)
(*                                                                         *)
(* One thread drives a context.  What makes it hard is that a drift        *)
(* evaluation runs the whole plan, any operator of which may fail, on the  *)
(* live fields and operators and has to undo every trace of it.            *)
(*                                                                         *)
(* The planner is used through what it promises (PlanConstraints; see      *)
(* OperatorPlan), the promotion of fields through its effect on them (see  *)
(* ContextMemory).  Operator callbacks are arbitrary: an evaluation stores *)
(* any data in the fields it declares as written, moves its own state      *)
(* anywhere and succeeds or fails.                                         *)
(***************************************************************************)
EXTENDS PlanConstraints, FiniteSets

CONSTANTS Values,        \* contents of a field, states of an operator
          Scrambled,     \* contents of a complex field that the bytes of a real
                         \* one have been copied into
          Descriptors,   \* the operator descriptors a caller may register
          FieldChoices,  \* the fields a caller may add
          MaxFields, MaxOps, MaxDepth   \* bounds

Contents == Values \cup {Scrambled}
FieldRecords == [complex : BOOLEAN, marked : BOOLEAN, data : Contents]

\* An operator: the fields it declares as read and as written, those of the reads
\* given by index and of the writes given by mask, its dependencies, whether it
\* has hooks to save and restore its state, whether its inputs and outputs must be
\* complex, whether it has a norm budget and whether its continuity mode makes it
\* dirty the fields it writes.
OperatorRecords == [reads : SUBSET (Nat \ {0}), writes : SUBSET (Nat \ {0}),
                    deps : Seq(Nat \ {0}), saves : BOOLEAN, complex_input : BOOLEAN,
                    complex_output : BOOLEAN, read_indices : SUBSET (Nat \ {0}),
                    write_mask : SUBSET (Nat \ {0}), norm_budget : BOOLEAN, dirties : BOOLEAN]

ASSUME ExecutionAssumption ==
  /\ Values # {} /\ Scrambled \notin Values
  /\ Descriptors \subseteq OperatorRecords
  /\ \A d \in Descriptors : d.read_indices \subseteq d.reads /\ d.write_mask \subseteq d.writes
  /\ FieldChoices \subseteq [complex : BOOLEAN, marked : BOOLEAN, data : Values]
  /\ MaxFields \in Nat /\ MaxOps \in Nat /\ MaxDepth \in Nat

VARIABLES fields,        \* context->world.fields
          ops,           \* context->world.operators
          opState,       \* private state of each operator
          planValid,     \* scheduler.plan_valid
          plan,          \* scheduler.plan
          depth,         \* runtime.drift_mode_depth
          override,      \* runtime.drift_time_override_active
          dirty,         \* runtime.field_dirty_counts
          pc,            \* where the running call is, "idle" when there is none
          pos,           \* loop index of sim_context_execute_prepared
          drifting,      \* the running call is, or is inside, a drift evaluation
          stepping,      \* target field of the running step, 0 when there is none
          snapshot,      \* integrator->drift_snapshots and their sizes
          entry,         \* history: fields, operators, counters, depth at drift entry
          stepEntry      \* history: fields when the integrator's step began

schedule == <<planValid, plan>>
driftMode == <<depth, override>>
call == <<pc, pos, drifting, stepping, snapshot>>
history == <<entry, stepEntry>>
vars == <<fields, ops, opState, schedule, driftMode, dirty, call, history>>

NoEntry == [fields |-> << >>, opState |-> << >>, dirty |-> << >>, depth |-> 0]
-------------------------------------------------------------------------------
Init == /\ fields = << >> /\ ops = << >> /\ opState = << >>
        /\ planValid = FALSE /\ plan = << >>
        /\ depth = 0 /\ override = FALSE
        /\ dirty = << >>
        /\ pc = "idle" /\ pos = 1 /\ drifting = FALSE /\ stepping = 0
        /\ snapshot = << >>
        /\ entry = NoEntry /\ stepEntry = << >>

AddField(f) == /\ pc = "idle"
               /\ Len(fields) < MaxFields
               /\ fields' = Append(fields, f)
               /\ dirty' = Append(dirty, 0)
               /\ planValid' = FALSE
               /\ UNCHANGED <<ops, opState, plan, driftMode, call, history>>

\* A caller sets complex_mode on a field of the context.
MarkComplex(k) == /\ pc = "idle"
                  /\ ~fields[k].marked
                  /\ fields' = [fields EXCEPT ![k].marked = TRUE]
                  /\ UNCHANGED <<ops, opState, schedule, driftMode, dirty, call, history>>

\* A failed registration leaves registry and plan as they were.
RegisterOperator(d, s) == /\ pc = "idle"
                          /\ Len(ops) < MaxOps
                          /\ ops' = Append(ops, d)
                          /\ opState' = Append(opState, s)
                          /\ planValid' = FALSE
                          /\ UNCHANGED <<fields, plan, driftMode, dirty, call, history>>

\* Mutant: the plan is kept.
AddDependencyKeepsPlan(a, b) ==
  /\ pc = "idle"
  /\ a # b /\ ~DependsOn(ops, a, b)
  /\ ops' = [ops EXCEPT ![a].deps = Append(@, b)]
  /\ UNCHANGED <<fields, opState, schedule, driftMode, dirty, call, history>>

\* A dependency on itself is refused, one that is there already changes nothing.
AddOperatorDependency(a, b) ==
  /\ pc = "idle"
  /\ a # b /\ ~DependsOn(ops, a, b)
  /\ ops' = [ops EXCEPT ![a].deps = Append(@, b)]
  /\ planValid' = FALSE
  /\ UNCHANGED <<fields, opState, plan, driftMode, dirty, call, history>>
-------------------------------------------------------------------------------
NeedsPromotion(f) == f.marked /\ ~f.complex

\* The fields once the promotion loop has passed the first k of them.
Promoted(k) == [j \in DOMAIN fields |->
                  IF j <= k /\ NeedsPromotion(fields[j])
                    THEN [fields[j] EXCEPT !.complex = TRUE] ELSE fields[j]]

\* sim_context_resolve_representations accepts the fields F.
ComplexIn(F, S) == \A f \in S : f \in DOMAIN F /\ F[f].complex
RepresentationsResolve(F) ==
  \A o \in DOMAIN ops : /\ ops[o].complex_input => ComplexIn(F, ops[o].reads)
                        /\ ops[o].complex_output => ComplexIn(F, ops[o].writes)

\* What sim_context_prepare_plan may leave behind: a promotion fails, the operators
\* do not fit the fields or a caller has given a field a representation that the
\* validator refuses, the plan was valid, or it is resolved anew, which drops the
\* old plan first and may fail for want of memory.
Prepared(F, valid, order, ok) ==
  [fields |-> F, planValid |-> valid, plan |-> order, ok |-> ok]
PrepareOutcomes ==
  LET all == Promoted(Len(fields))
      stopped == { Prepared(Promoted(k - 1), planValid, plan, FALSE) :
                     k \in { j \in DOMAIN fields : NeedsPromotion(fields[j]) } }
      orders == IF DanglingDependency(ops) THEN {} ELSE ValidPlans(ops)
  IN stopped \cup { Prepared(all, planValid, plan, FALSE) } \cup
     (IF ~RepresentationsResolve(all) THEN {}
      ELSE IF planValid THEN { Prepared(all, TRUE, plan, TRUE) }
      ELSE { Prepared(all, FALSE, << >>, FALSE) }
           \cup { Prepared(all, TRUE, p, TRUE) : p \in orders })

\* The state sim_context_prepare_plan leaves in the context.
AfterPrepare(r) == fields' = r.fields /\ planValid' = r.planValid /\ plan' = r.plan

\* Mutant: the counters of the last execution are kept.
ResetNothing == dirty' = dirty

\* sim_context_reset_continuity_counters.
ResetContinuityCounters == dirty' = [k \in DOMAIN dirty |-> 0]

\* The start of sim_context_execute_prepared, which needs a valid plan.
EnterPlan == /\ ResetContinuityCounters
             /\ pc' = "run"
             /\ pos' = 1

\* sim_context_prepare_plan called on its own.
PreparePlan == /\ pc = "idle"
               /\ \E r \in PrepareOutcomes : AfterPrepare(r)
               /\ UNCHANGED <<ops, opState, driftMode, dirty, call, history>>

Execute == /\ pc = "idle"
           /\ \E r \in PrepareOutcomes :
                r.ok /\ AfterPrepare(r) /\ EnterPlan
           /\ UNCHANGED <<ops, opState, driftMode, drifting, stepping, snapshot, history>>
-------------------------------------------------------------------------------
\* The operator the loop has reached; an evaluation succeeds only if the fields it
\* touches exist.
Current == plan[pos]
Touches(o) == ops[o].reads \cup ops[o].writes
InDrift == depth > 0

\* The field tables in which only fields of S have other data than now.
Changed(S) ==
  { [k \in DOMAIN fields |-> [fields[k] EXCEPT !.data = w[k]]] :
      w \in { x \in [DOMAIN fields -> Contents] :
                \A k \in DOMAIN fields :
                  x[k] = fields[k].data \/ (k \in S /\ x[k] \in Values) } }

\* The fields sim_context_apply_norm_budget may scale down: those written, those
\* read by index and, without a write mask, all; complex ones are passed over.
BudgetFields(o) ==
  { k \in DOMAIN fields :
      /\ ops[o].norm_budget /\ ~InDrift /\ ~fields[k].complex
      /\ \/ k \in ops[o].writes \cup ops[o].read_indices
         \/ ops[o].write_mask = {} /\ k \in ops[o].reads }

\* save_state before and restore_state after the evaluation keep the operator's
\* state, in drift mode and if it has the hooks.
KeepsState(o) == InDrift /\ ops[o].saves
StateAfter(o, s) == opState' = [opState EXCEPT ![o] = IF KeepsState(o) THEN @ ELSE s]

\* sim_context_record_continuity_hit, outside drift mode only.
CountWrites(o) ==
  dirty' = [k \in DOMAIN dirty |->
              IF ~InDrift /\ ops[o].dirties /\ k \in ops[o].write_mask
                THEN dirty[k] + 1 ELSE dirty[k]]

ApplyOperator == /\ pc = "run" /\ pos <= Len(plan)
                 /\ Touches(Current) \subseteq DOMAIN fields
                 /\ fields' \in Changed(ops[Current].writes \cup BudgetFields(Current))
                 /\ \E s \in Values : StateAfter(Current, s)
                 /\ CountWrites(Current)
                 /\ pos' = pos + 1
                 /\ UNCHANGED <<ops, schedule, driftMode, pc, drifting, stepping, snapshot,
                                history>>

\* Where sim_context_execute_prepared returns to.
Return == pc' = IF drifting THEN "drift_restore" ELSE "idle"

\* The operator fails, after it has written some of its fields; its state is
\* restored all the same.
OperatorFails == /\ pc = "run" /\ pos <= Len(plan)
                 /\ fields' \in Changed(ops[Current].writes)
                 /\ \E s \in Values : StateAfter(Current, s)
                 /\ Return
                 /\ pos' = 1
                 /\ UNCHANGED <<ops, schedule, driftMode, dirty, drifting, stepping, snapshot,
                                history>>

ExecuteReturns == /\ pc = "run" /\ pos > Len(plan)
                  /\ Return
                  /\ pos' = 1
                  /\ UNCHANGED <<fields, ops, opState, schedule, driftMode, dirty, drifting,
                                 stepping, snapshot, history>>
-------------------------------------------------------------------------------
BeginDrift == /\ pc = "idle"
              /\ depth < MaxDepth
              /\ depth' = depth + 1
              /\ UNCHANGED <<fields, ops, opState, schedule, override, dirty, call, history>>

\* The body of sim_context_end_drift.
LeaveDrift == depth' = depth - 1 /\ override' = (override /\ depth > 1)

EndDrift == /\ pc = "idle"
            /\ depth > 0
            /\ LeaveDrift
            /\ UNCHANGED <<fields, ops, opState, schedule, dirty, call, history>>

SetDriftTimeOverride == /\ pc = "idle"
                        /\ depth > 0
                        /\ override' = TRUE
                        /\ UNCHANGED <<fields, ops, opState, schedule, depth, dirty, call, history>>

ClearDriftTimeOverride == /\ pc = "idle"
                          /\ override' = FALSE
                          /\ UNCHANGED <<fields, ops, opState, schedule, depth, dirty, call,
                                         history>>
-------------------------------------------------------------------------------
\* Mutant: the candidate state is in the field when the snapshots are taken.
SnapshotAfterWrite(k, v) ==
  fields' = [fields EXCEPT ![k].data = v] /\ snapshot' = fields'

\* integrator_context_drift copies every field, then writes the candidate state
\* v to its target k.
SnapshotThenWrite(k, v) ==
  snapshot' = fields /\ fields' = [fields EXCEPT ![k].data = v]

\* A drift evaluation, by the integrator of the running step or by a caller.  It
\* ends at once when its target is marked complex and still real, or when there
\* is no memory for the copy of the state.
DriftBegin(k, v) ==
  /\ pc \in {"idle", "step"}
  /\ stepping \in {0, k}
  /\ depth < MaxDepth
  /\ \/ /\ ~NeedsPromotion(fields[k])
        /\ SnapshotThenWrite(k, v)
        /\ pc' = "drift_plan"
     \/ /\ snapshot' = fields
        /\ pc' = "drift_restore"
        /\ UNCHANGED fields
  /\ depth' = depth + 1
  /\ entry' = [fields |-> fields, opState |-> opState, dirty |-> dirty, depth |-> depth]
  /\ drifting' = TRUE
  /\ UNCHANGED <<ops, opState, schedule, override, dirty, pos, stepping, stepEntry>>

\* A valid plan is executed as it is.
DriftUsesPlan == /\ pc = "drift_plan" /\ planValid
                 /\ EnterPlan
                 /\ UNCHANGED <<fields, ops, opState, schedule, driftMode, drifting, stepping,
                                snapshot, history>>

\* Otherwise it is prepared now, behind the snapshots.
DriftPreparesPlan ==
  /\ pc = "drift_plan" /\ ~planValid
  /\ \E r \in PrepareOutcomes :
       /\ AfterPrepare(r)
       /\ IF r.ok THEN EnterPlan
          ELSE pc' = "drift_restore" /\ UNCHANGED <<dirty, pos>>
  /\ UNCHANGED <<ops, opState, driftMode, drifting, stepping, snapshot, history>>

\* The snapshots are copied back by the sizes they were taken with.
Restored(k) == [fields[k] EXCEPT !.data = IF fields[k].complex = snapshot[k].complex
                                            THEN snapshot[k].data ELSE Scrambled]

DriftReturns == /\ pc = "drift_restore"
                /\ fields' = [k \in DOMAIN fields |-> Restored(k)]
                /\ LeaveDrift
                /\ drifting' = FALSE
                /\ snapshot' = << >>
                /\ entry' = NoEntry
                /\ pc' = IF stepping = 0 THEN "idle" ELSE "step"
                /\ UNCHANGED <<ops, opState, schedule, dirty, pos, stepping, stepEntry>>
-------------------------------------------------------------------------------
\* Mutant: the plan is left for the first evaluation to prepare.
StepBeginUnprepared(k) ==
  /\ pc = "idle"
  /\ stepEntry' = fields
  /\ stepping' = k
  /\ pc' = "step"
  /\ UNCHANGED <<fields, ops, opState, schedule, driftMode, dirty, pos, drifting, snapshot, entry>>

\* integrator_step_context: the plan is prepared before the integrator's step.
StepBegin(k) == /\ pc = "idle"
                /\ \E r \in PrepareOutcomes :
                     r.ok /\ AfterPrepare(r) /\ stepEntry' = r.fields
                /\ stepping' = k
                /\ pc' = "step"
                /\ UNCHANGED <<ops, opState, driftMode, dirty, pos, drifting, snapshot, entry>>

\* The integrator writes its result to the target, or gives up silently.
StepEnd == /\ pc = "step"
           /\ \E v \in Values \cup {fields[stepping].data} :
                fields' = [fields EXCEPT ![stepping].data = v]
           /\ stepping' = 0
           /\ stepEntry' = << >>
           /\ pc' = "idle"
           /\ UNCHANGED <<ops, opState, schedule, driftMode, dirty, pos, drifting, snapshot, entry>>

Run == ApplyOperator \/ OperatorFails \/ ExecuteReturns

Next == \/ \E f \in FieldChoices : AddField(f)
        \/ \E k \in DOMAIN fields : MarkComplex(k) \/ StepBegin(k)
        \/ \E d \in Descriptors, s \in Values : RegisterOperator(d, s)
        \/ \E a, b \in DOMAIN ops : AddOperatorDependency(a, b)
        \/ PreparePlan \/ Execute \/ Run
        \/ BeginDrift \/ EndDrift \/ SetDriftTimeOverride \/ ClearDriftTimeOverride
        \/ \E k \in DOMAIN fields, v \in Values : DriftBegin(k, v)
        \/ DriftUsesPlan \/ DriftPreparesPlan \/ DriftReturns
        \/ StepEnd

Spec == Init /\ [][Next]_vars
-------------------------------------------------------------------------------
Phases == {"idle", "step", "drift_plan", "run", "drift_restore"}
TypeOK ==
  /\ fields \in Seq(FieldRecords)
  /\ ops \in Seq(OperatorRecords)
  /\ opState \in [DOMAIN ops -> Values]
  /\ planValid \in BOOLEAN /\ plan \in Seq(Nat)
  /\ depth \in Nat /\ override \in BOOLEAN
  /\ dirty \in [DOMAIN fields -> Nat]
  /\ pc \in Phases /\ pos \in Nat \ {0} /\ drifting \in BOOLEAN
  /\ stepping \in 0 .. Len(fields)
  /\ snapshot \in Seq(FieldRecords) /\ stepEntry \in Seq(FieldRecords)

\* A plan that is executed is a plan of the operators as they are now: every
\* change to the registry clears plan_valid, and a plan that failed to resolve is
\* never taken for a valid one, not even in the middle of a drift evaluation.
PlanIsCurrent ==
  planValid \/ pc = "run" => ~DanglingDependency(ops) /\ plan \in ValidPlans(ops)

\* A drift time override never outlives the drift mode it was set in, so
\* sim_context_time is the accumulated time outside it.
OverrideOnlyInDrift == override => depth > 0

\* Positions of the dirtying operators applied so far, outside drift mode, with
\* field k in their write mask.
Hits(k) == { j \in 1 .. pos - 1 : /\ depth = 0 /\ ops[plan[j]].dirties
                                  /\ k \in ops[plan[j]].write_mask }

\* While a plan runs outside drift mode the dirty counters are the number of
\* dirtying operators applied so far with the field in their write mask; in drift mode they
\* are zero.
ContinuityCounted == pc = "run" => \A k \in DOMAIN dirty : dirty[k] = Cardinality(Hits(k))

\* A drift evaluation, whether all operators, one of them or the preparation of
\* the plan fails, gives back the data of every field whose representation it did
\* not have to change, the state of every operator with save and restore hooks,
\* and the drift depth.
DriftLeavesNoTrace ==
  [][ drifting /\ ~drifting' =>
        /\ Len(fields') = Len(entry.fields)
        /\ \A k \in DOMAIN fields' : ~NeedsPromotion(entry.fields[k]) =>
             fields'[k] = entry.fields[k]
        /\ \A o \in DOMAIN ops : ops[o].saves => opState'[o] = entry.opState[o]
        /\ depth' = entry.depth ]_vars

\* Between the evaluations of a step every field is as the step found it, and at
\* no time in it does a field change its representation (the assertions of
\* integrator_step_context, lines 1160-1190).
StepIsolated ==
  stepping # 0 =>
    /\ Len(fields) = Len(stepEntry)
    /\ \A k \in DOMAIN fields : fields[k].complex = stepEntry[k].complex
    /\ pc = "step" => fields = stepEntry

\* Why these hold.  What each phase knows about the call that is running:
\* a plan is only run while it is valid, a step has prepared its fields, and only
\* a drift evaluation has an open snapshot.
CallInv ==
  /\ pc \in {"idle", "step"} => ~drifting
  /\ pc \in {"drift_plan", "drift_restore"} => drifting
  /\ pc = "run" => planValid
  /\ pc = "idle" => stepping = 0
  /\ pc = "step" => stepping # 0
  /\ pc = "run" /\ ~drifting => stepping = 0
  /\ stepping # 0 => planValid /\ \A k \in DOMAIN fields : ~NeedsPromotion(fields[k])

\* During a drift evaluation: every field has the representation of its snapshot
\* unless it has been promoted since, and operator state is what it was.
DriftInv ==
  drifting =>
    /\ snapshot = entry.fields
    /\ Len(fields) = Len(snapshot)
    /\ \A k \in DOMAIN fields :
         /\ fields[k].marked = snapshot[k].marked
         /\ NeedsPromotion(snapshot[k]) \/ fields[k].complex = snapshot[k].complex
    /\ \A o \in DOMAIN ops : ops[o].saves => opState[o] = entry.opState[o]
    /\ depth = entry.depth + 1 /\ entry.depth \in Nat
    /\ stepping # 0 => snapshot = stepEntry

IInv == TypeOK /\ CallInv /\ DriftInv /\ PlanIsCurrent /\ OverrideOnlyInDrift /\ StepIsolated
===============================================================================
