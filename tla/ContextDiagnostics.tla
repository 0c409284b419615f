-------------------------- MODULE ContextDiagnostics --------------------------
(***************************************************************************)
(* What a context records about its own execution: the profiler's frames   *)
(* (core/src/field/sim_profiler.c), which backend has run a kernel, the    *)
(* history of step metrics (core/src/sim_runtime_state.c) and the          *)
(* statistics of fields captured in drift mode (sim_context.c).            *)
(*                                                                         *)
(* A pass applies the operators of the plan one by one; what they do to    *)
(* fields is in ContextExecution.  Times are ticks of the monotonic clock. *)
(***************************************************************************)
EXTENDS Naturals, Sequences, FiniteSets

CONSTANTS Backends,    \* backends a scheduler may ask for; "cpu" is one
          Samples,     \* what a sample of step metrics holds beside its step
          Features,    \* feature masks of the field statistics
          History,     \* SIM_STEP_METRIC_HISTORY
          MaxOps, MaxFields, MaxCalls, MaxTime

ASSUME DiagnosticsAssumption ==
  /\ "cpu" \in Backends /\ Features # {}
  /\ History \in Nat \ {0} /\ MaxOps \in Nat /\ MaxFields \in Nat
  /\ MaxCalls \in Nat /\ MaxTime \in Nat

VARIABLES time,
          pass,        \* the running pass: whether, how many operators, which are done
          profiler,    \* profiler_ready and the SimProfiler
          kernel,      \* the kernel dispatch counters and the last record
          drift,       \* the context is in drift mode
          step_index,
          metrics,     \* step_metrics: slots, head, count and latest
          fields,      \* world.field_count
          stats,       \* drift_field_stats with requests, validity and step
          calls

vars == <<time, pass, profiler, kernel, drift, step_index, metrics, fields, stats, calls>>

NoPass == [running |-> FALSE, ops |-> 0, done |-> {}]
NoProfiler == [ready |-> FALSE, start |-> 0, end |-> 0, active |-> FALSE,
               invocations |-> << >>]
NoStep == 0         \* SIZE_MAX; a capture is for step_index + 1
NoSample == [step |-> 0, sample |-> "none"]

Init == /\ time = 1
        /\ pass = NoPass
        /\ profiler = NoProfiler
        /\ kernel = [dispatches |-> 0, fallbacks |-> 0, valid |-> FALSE, fallback_used |-> FALSE,
                     requested |-> "unknown", executed |-> "unknown"]
        /\ drift \in BOOLEAN
        /\ step_index = 0
        /\ metrics = [slots |-> [i \in 0..(History - 1) |-> NoSample], head |-> 0, count |-> 0,
                      latest |-> NoSample, valid |-> FALSE]
        /\ fields \in 1..MaxFields
        /\ \E mask \in Features :
             stats = [features |-> mask, requested |-> {}, valid |-> {}, step |-> NoStep,
                      computed |-> [i \in 1..MaxFields |-> [step |-> 0, features |-> mask]]]
        /\ calls = 0

Ticks == time..MaxTime
Calls == calls < MaxCalls /\ ~pass.running /\ calls' = calls + 1
-------------------------------------------------------------------------------
\* sim_context_configure_profiler: with another number of operators it is made anew,
\* and there may be no memory for its counters.
Configured(n, memory) ==
  IF n = 0 THEN NoProfiler
  ELSE IF profiler.ready /\ Len(profiler.invocations) = n THEN profiler
  ELSE IF memory THEN [NoProfiler EXCEPT !.ready = TRUE,
                                         !.invocations = [i \in 1..n |-> 0]]
  ELSE NoProfiler

\* A mutant: the counters go on from the frame before.
FrameKeepsCounters(p, now) == [p EXCEPT !.start = now, !.active = TRUE]

sim_profiler_begin_frame(p, now) ==
  [p EXCEPT !.invocations = [i \in DOMAIN @ |-> 0], !.start = now, !.active = TRUE]

sim_profiler_end_frame(p, now) ==
  IF p.active THEN [p EXCEPT !.end = now, !.active = FALSE] ELSE p

sim_profiler_record_operator(p, op) ==
  IF op <= Len(p.invocations) THEN [p EXCEPT !.invocations[op] = @ + 1] ELSE p

\* A mutant: the difference of the two times, whichever is later.
TotalOfBoth(p) == IF p.end >= p.start THEN p.end - p.start ELSE p.start - p.end

\* The duration in a snapshot, which is refused before the first frame.
SnapshotTotal(p) == IF p.end >= p.start THEN p.end - p.start ELSE 0
HasSnapshot(p) == p.ready /\ ~(p.start = 0 /\ p.end = 0)
-------------------------------------------------------------------------------
\* sim_context_record_kernel_dispatch, as sim_context_execute_kernel calls it: a kernel
\* that the backend has been known to decline, or has declined, has run on the CPU.
sim_context_record_kernel_dispatch(requested, declined) ==
  LET fallback == declined /\ requested # "cpu"
  IN [kernel EXCEPT !.dispatches = @ + 1,
                    !.fallbacks = IF fallback THEN @ + 1 ELSE @,
                    !.valid = TRUE, !.fallback_used = fallback, !.requested = requested,
                    !.executed = IF declined THEN "cpu" ELSE requested]

\* What an operator leaves in the record: nothing if it is no kernel, or if there is no
\* backend or no field for one of its bindings.
Dispatched ==
  { sim_context_record_kernel_dispatch(b, declined) : b \in Backends, declined \in BOOLEAN }
  \cup { kernel }
-------------------------------------------------------------------------------
\* A mutant: the marks of the capture before stay.
CaptureAdds == [stats EXCEPT
    !.valid = @ \cup (stats.requested \cap 1..fields),
    !.step = step_index + 1,
    !.computed = [i \in DOMAIN @ |-> IF i \in stats.requested \cap 1..fields
                   THEN [step |-> step_index + 1, features |-> stats.features] ELSE @[i]]]

\* sim_context_capture_drift_field_stats.
CaptureRequested == [stats EXCEPT
    !.valid = stats.requested \cap 1..fields,
    !.step = step_index + 1,
    !.computed = [i \in DOMAIN @ |-> IF i \in stats.requested \cap 1..fields
                   THEN [step |-> step_index + 1, features |-> stats.features] ELSE @[i]]]

Captured == IF drift /\ fields >= 2 /\ stats.requested # {} THEN CaptureRequested ELSE stats
-------------------------------------------------------------------------------
\* sim_context_execute_prepared.
PassBegin(n, memory, now) ==
  /\ Calls /\ now \in Ticks
  /\ time' = now
  /\ pass' = [running |-> TRUE, ops |-> n, done |-> {}]
  /\ LET p == Configured(n, memory)
     IN profiler' = IF p.ready THEN sim_profiler_begin_frame(p, now) ELSE p
  /\ UNCHANGED <<kernel, drift, step_index, metrics, fields, stats>>

\* An operator; one that fails ends the pass, and the frame stays open.
Recorded(op) == IF profiler.ready THEN sim_profiler_record_operator(profiler, op) ELSE profiler

ApplyOperator(op, ok) ==
  /\ pass.running /\ op \in 1..pass.ops \ pass.done
  /\ kernel' \in Dispatched
  /\ profiler' = Recorded(op)
  /\ pass' = IF ok THEN [pass EXCEPT !.done = @ \cup {op}] ELSE NoPass
  /\ UNCHANGED <<time, drift, step_index, metrics, fields, stats, calls>>

PassEnd(now) ==
  /\ pass.running /\ pass.done = 1..pass.ops /\ now \in Ticks
  /\ time' = now
  /\ profiler' = IF profiler.ready THEN sim_profiler_end_frame(profiler, now) ELSE profiler
  /\ stats' = Captured
  /\ pass' = NoPass
  /\ UNCHANGED <<kernel, drift, step_index, metrics, fields, calls>>
-------------------------------------------------------------------------------
sim_context_accept_step == /\ Calls
                           /\ step_index' = step_index + 1
                           /\ UNCHANGED <<time, pass, profiler, kernel, drift, metrics, fields, stats>>

\* A mutant: the last entry of the ring is not counted.
RecordedShort(m) == [metrics EXCEPT !.slots[metrics.head] = m,
                                    !.head = (@ + 1) % History,
                                    !.count = IF @ + 1 < History THEN @ + 1 ELSE @,
                                    !.latest = m, !.valid = TRUE]

sim_runtime_state_record_step_metrics(m) ==
  [metrics EXCEPT !.slots[metrics.head] = m,
                  !.head = (@ + 1) % History,
                  !.count = IF @ < History THEN @ + 1 ELSE @,
                  !.latest = m, !.valid = TRUE]

\* sim_context_record_step_metrics_with_timing, which drift mode ignores.
RecordStepMetrics(s) ==
  /\ Calls /\ ~drift
  /\ metrics' = sim_runtime_state_record_step_metrics(
                  [step |-> IF step_index > 0 THEN step_index - 1 ELSE 0, sample |-> s])
  /\ UNCHANGED <<time, pass, profiler, kernel, drift, step_index, fields, stats>>

\* sim_runtime_state_copy_step_metrics.
CopyStepMetrics(capacity) ==
  LET count == metrics.count
      start == (metrics.head + History - count) % History
  IN [i \in 1..(IF capacity < count THEN capacity ELSE count) |->
        metrics.slots[(start + i - 1) % History]]
-------------------------------------------------------------------------------
SetDrift(on) == /\ Calls /\ drift # on
                /\ drift' = on
                /\ UNCHANGED <<time, pass, profiler, kernel, step_index, metrics, fields, stats>>

\* The host sets the flags of the fields it wants statistics of.
RequestStats(R) == /\ Calls /\ R \subseteq 1..fields
                   /\ stats' = [stats EXCEPT !.requested = R]
                   /\ UNCHANGED <<time, pass, profiler, kernel, drift, step_index, metrics, fields>>

\* sim_context_add_field, whose new entry may make the buffers grow.
AddField(grows) ==
  /\ Calls /\ fields < MaxFields
  /\ fields' = fields + 1
  /\ stats' = [stats EXCEPT !.valid = IF grows THEN {} ELSE @ \ {fields + 1},
                            !.requested = @ \ {fields + 1}, !.step = NoStep]
  /\ UNCHANGED <<time, pass, profiler, kernel, drift, step_index, metrics>>

\* A mutant: the statistics of other features stay valid.
FeaturesKeepStats(mask) == [stats EXCEPT !.features = mask]

FeaturesSet(mask) == IF mask = stats.features THEN stats
                     ELSE [stats EXCEPT !.features = mask, !.valid = {}, !.step = NoStep]

sim_context_set_field_stats_features(mask) ==
  /\ Calls
  /\ stats' = FeaturesSet(mask)
  /\ UNCHANGED <<time, pass, profiler, kernel, drift, step_index, metrics, fields>>

Next == \/ \E n \in 0..MaxOps, memory \in BOOLEAN, now \in Ticks : PassBegin(n, memory, now)
        \/ \E op \in 1..MaxOps, ok \in BOOLEAN : ApplyOperator(op, ok)
        \/ \E now \in Ticks : PassEnd(now)
        \/ sim_context_accept_step
        \/ \E s \in Samples : RecordStepMetrics(s)
        \/ \E on \in BOOLEAN : SetDrift(on)
        \/ \E R \in SUBSET (1..MaxFields) : RequestStats(R)
        \/ \E grows \in BOOLEAN : AddField(grows)
        \/ \E mask \in Features : sim_context_set_field_stats_features(mask)

Spec == Init /\ [][Next]_vars
-------------------------------------------------------------------------------
\* A frame that is open, because its pass is running or has failed, has no duration: a
\* snapshot never measures from its start to the end of an earlier frame.
OpenFrameHasNoDuration == profiler.active => SnapshotTotal(profiler) = 0

\* The counters are those of the running pass alone, one for each operator it has
\* applied, also after a pass that failed or had other operators.
CountersOfThisPass ==
  pass.running /\ profiler.ready =>
    /\ Len(profiler.invocations) = pass.ops
    /\ \A op \in 1..pass.ops : profiler.invocations[op] = IF op \in pass.done THEN 1 ELSE 0

\* Statistics that a reader takes for those of drift_field_stats_step_index were all
\* computed for that step, with the features now in force.
StatsOfOneCapture ==
  stats.step # NoStep =>
    \A i \in stats.valid : /\ stats.computed[i].step = stats.step
                           /\ stats.computed[i].features = stats.features

\* The ring is a history of the latest samples, oldest first, on steps that never go
\* back, as sim_runtime_state.h says.
Abstract == INSTANCE StepHistory WITH recent <- CopyStepMetrics(History)
ImplementsHistory == Abstract!Spec
===============================================================================
