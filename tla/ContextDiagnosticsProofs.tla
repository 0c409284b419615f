----------------------- MODULE ContextDiagnosticsProofs -----------------------
(***************************************************************************)
(* Proofs about what a context records of its passes, for a history of any *)
(* length, any backends and any number of operators, fields and calls.     *)
(***************************************************************************)
EXTENDS ContextDiagnostics, SequenceTheorems, TLAPS

Profilers == [ready : BOOLEAN, start : Nat, end : Nat, active : BOOLEAN, invocations : Seq(Nat)]
Passes == [running : BOOLEAN, ops : Nat, done : SUBSET Nat]

\* The clock does not go back, and neither does the profiler's.
ProfilerInv == /\ time \in Nat
               /\ profiler \in Profilers
               /\ profiler.start <= time /\ profiler.end <= time
               /\ profiler.active => profiler.end <= profiler.start
               /\ pass \in Passes

Marks == [features : Features, requested : SUBSET (1..MaxFields),
          valid : SUBSET (1..MaxFields), step : Nat,
          computed : [1..MaxFields -> [step : Nat, features : Features]]]

StatsInv == /\ step_index \in Nat
            /\ fields \in 1..MaxFields
            /\ stats \in Marks
            /\ StatsOfOneCapture

Entries == [step : Nat, sample : Samples \cup {"none"}]
Stored == [step : Nat, sample : Samples]
Recent == CopyStepMetrics(History)

\* The slot of the i-th oldest sample.
Slot(i) == IF metrics.count < History THEN i - 1
           ELSE IF metrics.head + i - 1 < History THEN metrics.head + i - 1
           ELSE metrics.head + i - 1 - History

\* The step a sample recorded now is for.
Latest == IF step_index > 0 THEN step_index - 1 ELSE 0

RingTyped == /\ metrics \in [slots : [0..(History - 1) -> Entries], head : 0..(History - 1),
                             count : 0..History, latest : Entries, valid : BOOLEAN]
             /\ metrics.count < History => metrics.head = metrics.count
             /\ step_index \in Nat

RingInv == /\ RingTyped
           /\ \A i \in 1..metrics.count : metrics.slots[Slot(i)] \in Stored
           /\ metrics.count > 0 => metrics.slots[Slot(metrics.count)].step <= Latest

\* The inductive invariant.
IInv == ProfilerInv /\ CountersOfThisPass /\ StatsInv /\ RingInv
-------------------------------------------------------------------------------
LEMMA ZeroCounters ==
  ASSUME NEW n \in Nat
  PROVE  [i \in 1..n |-> 0] \in Seq(Nat) /\ Len([i \in 1..n |-> 0]) = n
OBVIOUS

LEMMA ConfiguredProfiler ==
  ASSUME ProfilerInv, NEW n \in Nat, NEW memory \in BOOLEAN
  PROVE  LET p == Configured(n, memory)
         IN /\ p \in Profilers
            /\ p.start <= time /\ p.end <= time
            /\ p.active => p.end <= p.start
            /\ p.ready => Len(p.invocations) = n
<1> DEFINE p == Configured(n, memory)
           fresh == [NoProfiler EXCEPT !.ready = TRUE, !.invocations = [i \in 1..n |-> 0]]
<1>1. NoProfiler \in Profilers /\ NoProfiler.start = 0 /\ NoProfiler.end = 0
      /\ ~NoProfiler.ready /\ ~NoProfiler.active
  BY DEF NoProfiler, Profilers
<1>2. /\ fresh \in Profilers /\ fresh.start = 0 /\ fresh.end = 0 /\ ~fresh.active
      /\ fresh.invocations = [i \in 1..n |-> 0]
  BY ZeroCounters DEF NoProfiler, Profilers
<1>3. Len(fresh.invocations) = n
  BY <1>2, ZeroCounters
<1>4. CASE p = NoProfiler
  BY <1>1, <1>4 DEF ProfilerInv
<1>5. CASE p = profiler /\ Len(profiler.invocations) = n
  BY <1>5 DEF ProfilerInv
<1>6. CASE p = fresh
  <2> HIDE DEF fresh, p
  <2> QED BY <1>2, <1>3, <1>6 DEF ProfilerInv, p
<1>7. \/ p = NoProfiler
      \/ p = profiler /\ Len(profiler.invocations) = n
      \/ p = fresh
  BY Zenon DEF Configured
<1> QED BY <1>4, <1>5, <1>6, <1>7

LEMMA BegunFrame ==
  ASSUME NEW p \in Profilers, NEW now \in Nat
  PROVE  LET b == sim_profiler_begin_frame(p, now)
         IN /\ b \in Profilers
            /\ b.start = now /\ b.end = p.end /\ b.ready = p.ready
            /\ Len(b.invocations) = Len(p.invocations)
            /\ \A i \in 1..Len(p.invocations) : b.invocations[i] = 0
<1> DEFINE zeros == [i \in DOMAIN p.invocations |-> 0]
<1>1. DOMAIN p.invocations = 1..Len(p.invocations) /\ Len(p.invocations) \in Nat
  BY DEF Profilers
<1>2. zeros \in Seq(Nat) /\ Len(zeros) = Len(p.invocations)
  BY <1>1, ZeroCounters
<1>3. \A i \in 1..Len(p.invocations) : zeros[i] = 0
  BY <1>1
<1>4. sim_profiler_begin_frame(p, now) =
        [p EXCEPT !.invocations = zeros, !.start = now, !.active = TRUE]
  BY DEF sim_profiler_begin_frame, Profilers
<1> HIDE DEF zeros
<1> QED BY <1>2, <1>3, <1>4 DEF Profilers

LEMMA BeginStep ==
  ASSUME IInv, NEW n \in 0..MaxOps, NEW memory \in BOOLEAN, NEW now \in Ticks,
         PassBegin(n, memory, now)
  PROVE  ProfilerInv' /\ CountersOfThisPass'
<1> DEFINE p == Configured(n, memory)
           b == sim_profiler_begin_frame(p, now)
<1>1. n \in Nat /\ now \in Nat /\ time \in Nat /\ time <= now /\ time' = now
  BY DiagnosticsAssumption DEF PassBegin, Ticks, IInv, ProfilerInv
<1>2. /\ p \in Profilers /\ p.start <= time /\ p.end <= time
      /\ p.active => p.end <= p.start
      /\ p.ready => Len(p.invocations) = n
  BY <1>1, ConfiguredProfiler DEF IInv
<1>3. profiler' = IF p.ready THEN b ELSE p
  BY DEF PassBegin
<1>4. /\ pass' = [running |-> TRUE, ops |-> n, done |-> {}]
      /\ pass' \in Passes /\ pass'.ops = n /\ pass'.done = {}
  BY <1>1 DEF PassBegin, Passes
<1> HIDE DEF p
<1>5. /\ b \in Profilers /\ b.start = now /\ b.end = p.end /\ b.ready = p.ready
      /\ Len(b.invocations) = Len(p.invocations)
      /\ \A i \in 1..Len(p.invocations) : b.invocations[i] = 0
  BY <1>1, <1>2, BegunFrame
<1> HIDE DEF b
<1>6. ProfilerInv'
  <2>1. CASE p.ready
    <3>1. profiler' = b
      BY <1>3, <2>1
    <3>2. p.end \in Nat
      BY <1>2 DEF Profilers
    <3> QED BY <1>1, <1>2, <1>4, <1>5, <3>1, <3>2 DEF ProfilerInv
  <2>2. CASE ~p.ready
    <3>1. profiler' = p
      BY <1>3, <2>2
    <3>2. p.start \in Nat /\ p.end \in Nat
      BY <1>2 DEF Profilers
    <3> QED BY <1>1, <1>2, <1>4, <3>1, <3>2 DEF ProfilerInv
  <2> QED BY <2>1, <2>2
<1>7. CountersOfThisPass'
  <2>1. CASE p.ready
    BY <1>2, <1>3, <1>4, <1>5, <2>1 DEF CountersOfThisPass
  <2>2. CASE ~p.ready
    BY <1>3, <1>4, <2>2 DEF CountersOfThisPass
  <2> QED BY <2>1, <2>2
<1> QED BY <1>6, <1>7

LEMMA ApplyStep ==
  ASSUME IInv, NEW op \in 1..MaxOps, NEW ok \in BOOLEAN, ApplyOperator(op, ok)
  PROVE  ProfilerInv' /\ CountersOfThisPass'
<1> DEFINE counts == profiler.invocations
           counted == [counts EXCEPT ![op] = @ + 1]
<1>1. /\ time' = time /\ time \in Nat /\ op \in Nat
      /\ profiler \in Profilers /\ pass \in Passes /\ counts \in Seq(Nat)
      /\ pass.running /\ op \in 1..pass.ops \ pass.done
  BY DiagnosticsAssumption DEF ApplyOperator, IInv, ProfilerInv, Profilers
<1>2. op <= Len(counts) => counted \in Seq(Nat) /\ Len(counted) = Len(counts)
  BY <1>1
<1>3. \/ profiler' = profiler /\ (profiler.ready => op > Len(counts))
      \/ profiler.ready /\ op <= Len(counts) /\ profiler' = [profiler EXCEPT !.invocations = counted]
  BY <1>1 DEF ApplyOperator, Recorded, sim_profiler_record_operator, Profilers
<1> HIDE DEF counted
<1>4. /\ profiler' \in Profilers /\ profiler'.start = profiler.start /\ profiler'.end = profiler.end
      /\ profiler'.active = profiler.active /\ profiler'.ready = profiler.ready
  BY <1>1, <1>2, <1>3 DEF Profilers
<1>5. pass' = NoPass \/ pass' = [pass EXCEPT !.done = @ \cup {op}]
  BY DEF ApplyOperator
<1>6. pass' \in Passes
  <2>1. NoPass \in Passes
    BY DEF Passes, NoPass
  <2>2. pass.done \cup {op} \in SUBSET Nat
    BY <1>1 DEF Passes
  <2>3. [pass EXCEPT !.done = @ \cup {op}] \in Passes
    BY <1>1, <2>2 DEF Passes
  <2> QED BY <1>5, <2>1, <2>3
<1>7. ProfilerInv'
  BY <1>1, <1>4, <1>6 DEF IInv, ProfilerInv
<1>8. CountersOfThisPass'
  <2>1. CASE pass' = NoPass
    BY <2>1 DEF NoPass, CountersOfThisPass
  <2>2. CASE ~profiler.ready
    BY <1>4, <2>2 DEF CountersOfThisPass
  <2>3. CASE profiler.ready /\ pass' = [pass EXCEPT !.done = @ \cup {op}]
    <3>1. /\ Len(counts) = pass.ops
          /\ \A i \in 1..pass.ops : counts[i] = IF i \in pass.done THEN 1 ELSE 0
      BY <1>1, <2>3 DEF IInv, CountersOfThisPass
    <3>2. pass'.ops = pass.ops /\ pass'.done = pass.done \cup {op}
      BY <1>1, <2>3 DEF Passes
    <3>3. pass.ops \in Nat
      BY <1>1 DEF Passes
    <3>4. profiler'.invocations = counted
      BY <1>1, <1>3, <2>3, <3>1, <3>3 DEF Profilers
    <3>5. \A i \in 1..pass.ops : counted[i] = IF i \in pass.done \cup {op} THEN 1 ELSE 0
      BY <1>1, <3>1, <3>3 DEF counted
    <3> QED BY <1>1, <1>2, <3>1, <3>2, <3>3, <3>4, <3>5 DEF CountersOfThisPass
  <2> QED BY <1>5, <2>1, <2>2, <2>3
<1> QED BY <1>7, <1>8

LEMMA EndStep ==
  ASSUME IInv, NEW now \in Ticks, PassEnd(now)
  PROVE  ProfilerInv' /\ CountersOfThisPass'
<1>1. time' = now /\ now \in Nat /\ time <= now /\ time \in Nat
  BY DiagnosticsAssumption DEF PassEnd, Ticks, IInv, ProfilerInv
<1>2. pass' = NoPass /\ NoPass \in Passes /\ ~NoPass.running
  BY DEF PassEnd, NoPass, Passes
<1>3. \/ profiler' = profiler
      \/ profiler' = [profiler EXCEPT !.end = now, !.active = FALSE]
  BY DEF PassEnd, sim_profiler_end_frame
<1>4. ProfilerInv'
  <2>1. profiler \in Profilers /\ profiler.start <= time /\ profiler.end <= time
    BY DEF IInv, ProfilerInv
  <2>2. CASE profiler' = profiler
    <3>1. profiler.start \in Nat /\ profiler.end \in Nat
      BY <2>1 DEF Profilers
    <3> QED BY <1>1, <1>2, <2>1, <2>2, <3>1 DEF IInv, ProfilerInv
  <2>3. CASE profiler' = [profiler EXCEPT !.end = now, !.active = FALSE]
    <3>1. /\ profiler' \in Profilers /\ profiler'.start = profiler.start /\ profiler'.end = now
          /\ ~profiler'.active /\ profiler.start \in Nat
      BY <1>1, <2>1, <2>3 DEF Profilers
    <3> QED BY <1>1, <1>2, <2>1, <3>1 DEF ProfilerInv
  <2> QED BY <1>3, <2>2, <2>3
<1>5. CountersOfThisPass'
  BY <1>2 DEF CountersOfThisPass
<1> QED BY <1>4, <1>5
-------------------------------------------------------------------------------
LEMMA CaptureStep ==
  ASSUME StatsInv, NEW now \in Ticks, PassEnd(now)
  PROVE  StatsInv'
<1> DEFINE new == stats.requested \cap 1..fields
           mark == [step |-> step_index + 1, features |-> stats.features]
<1>1. step_index' = step_index /\ fields' = fields /\ step_index \in Nat /\ fields \in 1..MaxFields
  BY DEF PassEnd, StatsInv
<1>2. stats \in Marks /\ mark \in [step : Nat, features : Features]
  BY <1>1 DEF StatsInv, Marks
<1>3. CASE stats' = stats
  BY <1>1, <1>3 DEF StatsInv, StatsOfOneCapture
<1>4. CASE stats' = CaptureRequested
  <2>1. /\ stats'.valid = new /\ stats'.step = step_index + 1
        /\ stats'.features = stats.features /\ stats'.requested = stats.requested
        /\ stats'.computed = [i \in 1..MaxFields |-> IF i \in new THEN mark ELSE stats.computed[i]]
        /\ stats' \in Marks
    BY <1>1, <1>2, <1>4 DEF CaptureRequested, Marks
  <2>2. \A i \in new : stats'.computed[i] = mark
    BY <1>1, <1>2, <2>1 DEF Marks
  <2>3. StatsOfOneCapture'
    BY <2>1, <2>2 DEF StatsOfOneCapture
  <2> QED BY <1>1, <2>1, <2>3 DEF StatsInv
<1> QED BY <1>3, <1>4 DEF PassEnd, Captured

LEMMA StatsCallStep ==
  ASSUME StatsInv,
         \/ sim_context_accept_step
         \/ \E R \in SUBSET (1..MaxFields) : RequestStats(R)
         \/ \E grows \in BOOLEAN : AddField(grows)
         \/ \E mask \in Features : sim_context_set_field_stats_features(mask)
  PROVE  StatsInv'
<1>1. CASE sim_context_accept_step
  BY <1>1 DEF sim_context_accept_step, StatsInv, StatsOfOneCapture
<1>2. ASSUME NEW R \in SUBSET (1..MaxFields), RequestStats(R)
      PROVE  StatsInv'
  <2>1. /\ stats' \in Marks /\ stats'.valid = stats.valid /\ stats'.step = stats.step
        /\ stats'.computed = stats.computed /\ stats'.features = stats.features
    BY <1>2 DEF RequestStats, StatsInv, Marks
  <2>2. fields' = fields /\ step_index' = step_index
    BY <1>2 DEF RequestStats
  <2> QED BY <2>1, <2>2 DEF StatsInv, StatsOfOneCapture
<1>3. ASSUME NEW grows \in BOOLEAN, AddField(grows)
      PROVE  StatsInv'
  <2>1. stats' \in Marks /\ stats'.step = NoStep
    BY <1>3 DEF AddField, StatsInv, Marks, NoStep
  <2>2. fields' \in 1..MaxFields /\ step_index' = step_index
    <3>1. fields \in 1..MaxFields /\ fields < MaxFields /\ fields' = fields + 1 /\ MaxFields \in Nat
      BY <1>3, DiagnosticsAssumption DEF AddField, StatsInv
    <3>2. fields' \in 1..MaxFields
      BY <3>1
    <3>3. step_index' = step_index
      BY <1>3 DEF AddField
    <3> QED BY <3>2, <3>3
  <2> QED BY <2>1, <2>2 DEF StatsInv, StatsOfOneCapture
<1>4. ASSUME NEW mask \in Features, sim_context_set_field_stats_features(mask)
      PROVE  StatsInv'
  <2>1. fields' = fields /\ step_index' = step_index
    BY <1>4 DEF sim_context_set_field_stats_features
  <2>2. CASE stats' = stats
    BY <2>1, <2>2 DEF StatsInv, StatsOfOneCapture
  <2>3. CASE stats' = [stats EXCEPT !.features = mask, !.valid = {}, !.step = NoStep]
    <3>1. stats' \in Marks /\ stats'.step = NoStep
      BY <1>4, <2>3 DEF StatsInv, Marks, NoStep
    <3> QED BY <2>1, <3>1 DEF StatsInv, StatsOfOneCapture
  <2> QED BY <1>4, <2>2, <2>3 DEF sim_context_set_field_stats_features, FeaturesSet
<1> QED BY <1>1, <1>2, <1>3, <1>4
-------------------------------------------------------------------------------
LEMMA ModOnce ==
  ASSUME NEW H \in Nat \ {0}, NEW a \in 0..(2 * H - 1)
  PROVE  a % H = IF a < H THEN a ELSE a - H
<1>1. CASE a < H
  BY <1>1
<1>2. CASE ~(a < H)
  BY <1>2
<1> QED BY <1>1, <1>2

LEMMA SlotRange ==
  ASSUME RingTyped, NEW i \in 1..metrics.count
  PROVE  /\ Slot(i) \in 0..(History - 1)
         /\ metrics.slots[Slot(i)] \in Entries
BY DiagnosticsAssumption DEF RingTyped, Slot

LEMMA RecentForm ==
  ASSUME RingTyped
  PROVE  Recent = [i \in 1..metrics.count |-> metrics.slots[Slot(i)]]
<1> DEFINE H == History
           c == metrics.count
           h == metrics.head
           start == (h + H - c) % H
<1>1. H \in Nat \ {0} /\ c \in 0..H /\ h \in 0..(H - 1) /\ (c < H => h = c)
  BY DiagnosticsAssumption DEF RingTyped
<1>2. start = IF c < H THEN 0 ELSE h
  <2>1. h + H - c \in 0..(2 * H - 1)
    BY <1>1
  <2>2. start = IF h + H - c < H THEN h + H - c ELSE h + H - c - H
    BY <1>1, <2>1, ModOnce
  <2> QED BY <1>1, <2>2
<1>3. Recent = [i \in 1..c |-> metrics.slots[(start + i - 1) % H]]
  BY <1>1 DEF Recent, CopyStepMetrics
<1> HIDE DEF start, H, c, h
<1>4. ASSUME NEW i \in 1..c
      PROVE  (start + i - 1) % H = Slot(i)
  <2>1. start + i - 1 \in 0..(2 * H - 1)
    BY <1>1, <1>2
  <2>2. (start + i - 1) % H = IF start + i - 1 < H THEN start + i - 1 ELSE start + i - 1 - H
    <3>1. PICK a \in 0..(2 * H - 1) : a = start + i - 1
      BY <2>1
    <3>2. a % H = IF a < H THEN a ELSE a - H
      BY <1>1, ModOnce
    <3> QED BY <1>1, <1>2, <3>1, <3>2
  <2>3. Slot(i) = IF c < H THEN i - 1 ELSE IF h + i - 1 < H THEN h + i - 1 ELSE h + i - 1 - H
    BY DEF Slot, H, c, h
  <2>4. CASE c < H
    BY <1>1, <1>2, <2>2, <2>3, <2>4
  <2>5. CASE ~(c < H)
    BY <1>1, <1>2, <2>2, <2>3, <2>5
  <2> QED BY <2>4, <2>5
<1> QED BY <1>3, <1>4 DEF c

RecentIsSeq == /\ Recent \in Seq(Stored) /\ Len(Recent) = metrics.count
               /\ \A i \in 1..metrics.count : Recent[i] = metrics.slots[Slot(i)]

LEMMA RecentSeq == RingInv => RecentIsSeq
<1> SUFFICES ASSUME RingInv PROVE RecentIsSeq
  OBVIOUS
<1>1. metrics.count \in Nat
  BY DiagnosticsAssumption DEF RingInv, RingTyped
<1>2. Recent = [i \in 1..metrics.count |-> metrics.slots[Slot(i)]]
  BY RecentForm DEF RingInv
<1> HIDE DEF Recent
<1>3. \A i \in 1..metrics.count : Recent[i] \in Stored /\ Recent[i] = metrics.slots[Slot(i)]
  BY <1>2 DEF RingInv
<1>4. Recent \in [1..metrics.count -> Stored]
  BY <1>2, <1>3
<1>5. Recent \in Seq(Stored)
  BY <1>1, <1>4, SeqDef
<1>6. DOMAIN Recent = 1..metrics.count
  BY <1>2
<1> QED BY <1>1, <1>3, <1>5, <1>6 DEF RecentIsSeq

\* What recording does to the ring.
LEMMA RecordedRing ==
  ASSUME RingInv, NEW s \in Samples, RecordStepMetrics(s)
  PROVE  LET m == [step |-> Latest, sample |-> s]
         IN /\ RingTyped' /\ m \in Stored /\ Latest' = Latest
            /\ metrics'.slots = [metrics.slots EXCEPT ![metrics.head] = m]
            /\ metrics'.count = IF metrics.count < History THEN metrics.count + 1 ELSE History
            /\ metrics'.head = IF metrics.head + 1 < History THEN metrics.head + 1 ELSE 0
<1> DEFINE m == [step |-> Latest, sample |-> s]
           H == History
<1>1. /\ H \in Nat \ {0} /\ metrics.count \in 0..H /\ metrics.head \in 0..(H - 1)
      /\ metrics.slots \in [0..(H - 1) -> Entries]
      /\ metrics.count < H => metrics.head = metrics.count
  BY DiagnosticsAssumption DEF RingInv, RingTyped
<1>2. step_index' = step_index /\ step_index \in Nat
  BY DEF RecordStepMetrics, RingInv, RingTyped
<1>3. m \in Stored /\ m \in Entries /\ Latest' = Latest
  BY <1>2 DEF Latest, Stored, Entries
<1>4. metrics' = [metrics EXCEPT !.slots[metrics.head] = m,
                                 !.head = (@ + 1) % H,
                                 !.count = IF @ < H THEN @ + 1 ELSE @,
                                 !.latest = m, !.valid = TRUE]
  BY DEF RecordStepMetrics, sim_runtime_state_record_step_metrics, Latest
<1> HIDE DEF m
<1>5. /\ metrics'.slots = [metrics.slots EXCEPT ![metrics.head] = m]
      /\ metrics'.head = (metrics.head + 1) % H
      /\ metrics'.count = IF metrics.count < H THEN metrics.count + 1 ELSE metrics.count
      /\ metrics'.latest = m /\ metrics'.valid = TRUE
      /\ metrics' = [slots |-> metrics'.slots, head |-> metrics'.head, count |-> metrics'.count,
                     latest |-> metrics'.latest, valid |-> metrics'.valid]
  BY <1>4 DEF RingInv, RingTyped
<1>6. (metrics.head + 1) % H = IF metrics.head + 1 < H THEN metrics.head + 1 ELSE 0
  <2>1. metrics.head + 1 \in 0..(2 * H - 1)
    BY <1>1
  <2>2. PICK a \in 0..(2 * H - 1) : a = metrics.head + 1
    BY <2>1
  <2>3. a % H = IF a < H THEN a ELSE a - H
    BY <1>1, ModOnce
  <2> QED BY <1>1, <2>2, <2>3
<1>7. metrics'.slots \in [0..(H - 1) -> Entries]
  BY <1>1, <1>3, <1>5
<1>8. metrics'.head \in 0..(H - 1) /\ metrics'.count \in 0..H
      /\ (metrics'.count < H => metrics'.head = metrics'.count)
  BY <1>1, <1>5, <1>6
<1>9. RingTyped'
  BY <1>2, <1>3, <1>5, <1>7, <1>8 DEF RingTyped
<1> QED BY <1>1, <1>3, <1>5, <1>6, <1>9 DEF m

\* Where the samples are afterwards: each has moved up by one if the ring was full.
LEMMA SlotsAfter ==
  ASSUME RingInv, NEW s \in Samples, RecordStepMetrics(s)
  PROVE  LET m == [step |-> Latest, sample |-> s]
         IN /\ metrics'.slots[Slot(metrics.count)'] = m
            /\ metrics.count < History =>
                 \A i \in 1..metrics.count : metrics'.slots[Slot(i)'] = metrics.slots[Slot(i)]
            /\ metrics.count = History =>
                 \A i \in 1..(History - 1) : metrics'.slots[Slot(i)'] = metrics.slots[Slot(i + 1)]
<1> DEFINE m == [step |-> Latest, sample |-> s]
           H == History
           c == metrics.count
           h == metrics.head
           d == metrics'.count
           k == metrics'.head
<1>1. /\ H \in Nat \ {0} /\ c \in 0..H /\ h \in 0..(H - 1)
      /\ metrics.slots \in [0..(H - 1) -> Entries]
      /\ c < H => h = c
  BY DiagnosticsAssumption DEF RingInv, RingTyped
<1>2. /\ metrics'.slots = [metrics.slots EXCEPT ![h] = m]
      /\ d = IF c < H THEN c + 1 ELSE H
      /\ k = IF h + 1 < H THEN h + 1 ELSE 0
  BY RecordedRing
<1> HIDE DEF m
<1>3. metrics'.slots[h] = m /\ \A j \in 0..(H - 1) : j # h => metrics'.slots[j] = metrics.slots[j]
  BY <1>1, <1>2
<1>4. \A i \in Nat : Slot(i) = IF c < H THEN i - 1
                               ELSE IF h + i - 1 < H THEN h + i - 1 ELSE h + i - 1 - H
  BY DEF Slot
<1>5. \A i \in Nat : Slot(i)' = IF d < H THEN i - 1
                                ELSE IF k + i - 1 < H THEN k + i - 1 ELSE k + i - 1 - H
  BY DEF Slot
<1>6. Slot(metrics.count)' = IF d < H THEN d - 1
                             ELSE IF k + d - 1 < H THEN k + d - 1 ELSE k + d - 1 - H
  BY DEF Slot
<1> HIDE DEF H, c, h, d, k
<1>9. Slot(metrics.count)' = h
  BY <1>1, <1>2, <1>6
<1>7. CASE c < H
  <2>1. ASSUME NEW i \in 1..c
        PROVE  Slot(i)' = i - 1 /\ Slot(i) = i - 1 /\ i - 1 \in 0..(H - 1) /\ i - 1 # h
    BY <1>1, <1>2, <1>4, <1>5, <1>7
  <2> QED BY <1>1, <1>3, <1>9, <1>7, <2>1 DEF H, c, h, d, k, m
<1>8. CASE c = H
  <2>1. ASSUME NEW i \in 1..(H - 1)
        PROVE  Slot(i)' = Slot(i + 1) /\ Slot(i + 1) \in 0..(H - 1) /\ Slot(i + 1) # h
    BY <1>1, <1>2, <1>4, <1>5, <1>8
  <2> QED BY <1>1, <1>3, <1>9, <1>8, <2>1 DEF H, c, h, d, k, m
<1> QED BY <1>1, <1>7, <1>8

LEMMA RingRecorded ==
  ASSUME RingInv, NEW s \in Samples, RecordStepMetrics(s)
  PROVE  RingInv'
<1> DEFINE m == [step |-> Latest, sample |-> s]
           H == History
           c == metrics.count
<1>1. H \in Nat \ {0} /\ c \in 0..H
  BY DiagnosticsAssumption DEF RingInv, RingTyped
<1>2. /\ RingTyped' /\ m \in Stored /\ Latest' = Latest
      /\ metrics'.count = IF c < H THEN c + 1 ELSE H
  BY RecordedRing
<1>3. metrics'.slots[Slot(metrics.count)'] = m
  BY SlotsAfter
<1>4. \A i \in 1..metrics'.count : metrics'.slots[Slot(i)'] \in Stored
  <2>1. CASE c < H
    <3>1. \A i \in 1..c : metrics'.slots[Slot(i)'] \in Stored
      BY <2>1, SlotsAfter DEF RingInv
    <3>2. PICK n \in Nat : n = metrics'.count
      BY <1>1, <1>2
    <3>3. metrics'.slots[Slot(n)'] = m
      BY <1>3, <3>2 DEF Slot
    <3>4. \A i \in 1..n : i = n \/ i \in 1..c
      BY <1>1, <1>2, <2>1, <3>2
    <3> QED BY <1>2, <3>1, <3>2, <3>3, <3>4
  <2>2. CASE c = H
    <3>1. \A i \in 1..(H - 1) : metrics'.slots[Slot(i)'] \in Stored
      <4>1. \A i \in 1..(H - 1) : i + 1 \in 1..c
        BY <1>1, <2>2
      <4> QED BY <2>2, <4>1, SlotsAfter DEF RingInv
    <3>2. metrics'.slots[Slot(H)'] = m
      BY <1>1, <1>2, <1>3, <2>2 DEF Slot
    <3> QED BY <1>1, <1>2, <2>2, <3>1, <3>2
  <2> QED BY <1>1, <2>1, <2>2
<1>5. m.step = Latest /\ Latest \in Nat
  BY <1>2 DEF Stored
<1>6. (metrics.slots[Slot(metrics.count)].step <= Latest)'
  BY <1>2, <1>3, <1>5
<1> QED BY <1>2, <1>4, <1>6 DEF RingInv

LEMMA RecordRefines ==
  ASSUME RingInv, NEW s \in Samples, RecordStepMetrics(s)
  PROVE  Abstract!Record
<1> DEFINE m == [step |-> Latest, sample |-> s]
           H == History
           c == metrics.count
           kept == IF Len(Recent) < H THEN Recent ELSE Tail(Recent)
<1>1. H \in Nat \ {0} /\ c \in 0..H
  BY DiagnosticsAssumption DEF RingInv, RingTyped
<1>2. m \in Stored /\ metrics'.count = IF c < H THEN c + 1 ELSE H
  BY RecordedRing
<1>3. /\ Recent \in Seq(Stored) /\ Len(Recent) = c
      /\ \A i \in 1..c : Recent[i] = metrics.slots[Slot(i)]
  BY RecentSeq DEF RecentIsSeq
<1>4. RecentIsSeq'
  <2>1. RingInv'
    BY RingRecorded
  <2> QED BY <2>1, RecentSeq, PTL
<1>5. /\ Recent' \in Seq(Stored) /\ Len(Recent') = metrics'.count
      /\ \A i \in 1..metrics'.count : Recent'[i] = metrics'.slots[Slot(i)']
  BY <1>4 DEF RecentIsSeq
<1>6. metrics'.slots[Slot(metrics.count)'] = m
  BY SlotsAfter
<1> HIDE DEF m
<1>7. Recent' = Append(kept, m) /\ Recent'[Len(Recent')] = m
  <2>1. CASE c < H
    <3>1. \A i \in 1..c : Recent'[i] = Recent[i]
      <4>1. \A i \in 1..c : i \in 1..metrics'.count
        BY <1>1, <1>2, <2>1
      <4>2. \A i \in 1..c : metrics'.slots[Slot(i)'] = metrics.slots[Slot(i)]
        BY <2>1, SlotsAfter
      <4> QED BY <1>3, <1>5, <4>1, <4>2
    <3>2. Recent'[c + 1] = m
      <4>1. PICK n \in Nat : n = metrics'.count
        BY <1>1, <1>2
      <4>2. metrics'.slots[Slot(n)'] = m
        BY <1>6, <4>1 DEF Slot
      <4> QED BY <1>1, <1>2, <1>5, <2>1, <4>1, <4>2
    <3>3. kept = Recent
      BY <1>3, <2>1
    <3> DEFINE t == Append(Recent, m)
    <3>4. t \in Seq(Stored) /\ Len(t) = c + 1 /\ t[c + 1] = m /\ \A i \in 1..c : t[i] = Recent[i]
      BY <1>1, <1>2, <1>3
    <3> HIDE DEF t
    <3>5. Recent' = t
      <4>1. Len(Recent') = Len(t) /\ \A i \in 1..Len(t) : Recent'[i] = t[i]
        BY <1>1, <1>2, <1>5, <2>1, <3>1, <3>2, <3>4
      <4> QED BY <1>5, <3>4, <4>1, SeqEqual
    <3> QED BY <1>1, <1>2, <1>5, <2>1, <3>2, <3>3, <3>5 DEF t
  <2>2. CASE c = H
    <3> DEFINE u == Tail(Recent)
               t == Append(u, m)
    <3>1. u \in Seq(Stored) /\ Len(u) = H - 1 /\ \A i \in 1..(H - 1) : u[i] = Recent[i + 1]
      <4>1. Recent # << >>
        BY <1>1, <1>3, <2>2
      <4>2. /\ u \in Seq(Stored) /\ Len(u) = Len(Recent) - 1
            /\ \A i \in 1..Len(u) : u[i] = Recent[i + 1]
        BY <1>3, <4>1, HeadTailProperties
      <4> QED BY <1>1, <1>3, <2>2, <4>2
    <3>2. kept = u
      BY <1>1, <1>3, <2>2
    <3> HIDE DEF u
    <3>3. t \in Seq(Stored) /\ Len(t) = H /\ t[H] = m /\ \A i \in 1..(H - 1) : t[i] = u[i]
      BY <1>1, <1>2, <3>1
    <3>4. \A i \in 1..(H - 1) : Recent'[i] = u[i]
      <4>1. \A i \in 1..(H - 1) : i \in 1..metrics'.count /\ i + 1 \in 1..c
        BY <1>1, <1>2, <2>2
      <4>2. \A i \in 1..(H - 1) : metrics'.slots[Slot(i)'] = metrics.slots[Slot(i + 1)]
        BY <2>2, SlotsAfter
      <4> QED BY <1>3, <1>5, <3>1, <4>1, <4>2
    <3>5. Recent'[H] = m
      <4>1. Slot(metrics.count)' = Slot(H)'
        BY <1>1, <1>2, <2>2 DEF Slot
      <4> QED BY <1>1, <1>2, <1>5, <1>6, <2>2, <4>1
    <3> HIDE DEF t
    <3>6. Recent' = t
      <4>1. Len(Recent') = Len(t) /\ \A i \in 1..Len(t) : Recent'[i] = t[i]
        BY <1>1, <1>2, <1>5, <2>2, <3>3, <3>4, <3>5
      <4> QED BY <1>5, <3>3, <4>1, SeqEqual
    <3> QED BY <1>1, <1>2, <1>5, <2>2, <3>2, <3>5, <3>6 DEF t
  <2> QED BY <1>1, <2>1, <2>2
<1>8. Recent' # << >>
  BY <1>1, <1>2, <1>5
<1>9. Recent # << >> => Recent[Len(Recent)].step <= m.step
  <2>1. m.step = Latest
    BY DEF m
  <2> QED BY <1>1, <1>3, <2>1 DEF RingInv
<1> QED BY <1>2, <1>7, <1>8, <1>9
        DEF Abstract!Record, Abstract!Newest, Abstract!Appended, Abstract!Metrics, Stored, Recent

LEMMA Preceding ==
  ASSUME NEW a \in Nat, NEW b \in Nat, b >= a,
         NEW x, x = IF a > 0 THEN a - 1 ELSE 0,
         NEW y, y = IF b > 0 THEN b - 1 ELSE 0
  PROVE  x \in Nat /\ y \in Nat /\ x <= y
OBVIOUS

LEMMA RingKept ==
  ASSUME RingInv, metrics' = metrics, step_index' \in Nat, step_index' >= step_index
  PROVE  RingInv'
<1>1. step_index \in Nat
  BY DEF RingInv, RingTyped
<1>2. Latest \in Nat /\ Latest' \in Nat /\ Latest <= Latest'
  <2>1. /\ Latest = IF step_index > 0 THEN step_index - 1 ELSE 0
        /\ Latest' = IF step_index' > 0 THEN step_index' - 1 ELSE 0
    BY DEF Latest
  <2> QED BY <1>1, <2>1, Preceding
<1>3. \A i : Slot(i)' = Slot(i)
  BY DEF Slot
<1>4. RingTyped'
  BY DEF RingInv, RingTyped
<1>5. (\A i \in 1..metrics.count : metrics.slots[Slot(i)] \in Stored)'
  BY <1>3 DEF RingInv
<1>6. (metrics.count > 0 => metrics.slots[Slot(metrics.count)].step <= Latest)'
  <2>1. SUFFICES ASSUME metrics.count > 0
                 PROVE  metrics.slots[Slot(metrics.count)].step <= Latest'
    BY DEF Slot
  <2>2. /\ metrics.slots[Slot(metrics.count)] \in Stored
        /\ metrics.slots[Slot(metrics.count)].step <= Latest
    BY <2>1, DiagnosticsAssumption DEF RingInv, RingTyped
  <2>3. metrics.slots[Slot(metrics.count)].step \in Nat
    BY <2>2 DEF Stored
  <2> QED BY <1>2, <2>2, <2>3
<1> QED BY <1>4, <1>5, <1>6 DEF RingInv
-------------------------------------------------------------------------------
LEMMA InvariantInit == Init => IInv
<1> SUFFICES ASSUME Init PROVE IInv
  OBVIOUS
<1>1. ProfilerInv
  <2>1. NoProfiler \in Profilers /\ NoProfiler.start = 0 /\ NoProfiler.end = 0
    BY DEF NoProfiler, Profilers
  <2>2. NoPass \in Passes
    BY DEF NoPass, Passes
  <2> QED BY <2>1, <2>2 DEF Init, ProfilerInv
<1>2. CountersOfThisPass
  BY DEF Init, NoPass, CountersOfThisPass
<1>3. StatsInv
  <2>1. PICK mask \in Features :
          stats = [features |-> mask, requested |-> {}, valid |-> {}, step |-> NoStep,
                   computed |-> [i \in 1..MaxFields |-> [step |-> 0, features |-> mask]]]
    BY DEF Init
  <2>2. stats \in Marks /\ stats.step = NoStep
    BY <2>1 DEF Marks, NoStep
  <2> QED BY <2>2 DEF Init, StatsInv, StatsOfOneCapture
<1>4. RingInv
  <2>1. NoSample \in Entries
    BY DEF NoSample, Entries
  <2>2. RingTyped /\ metrics.count = 0
    BY <2>1, DiagnosticsAssumption DEF Init, RingTyped
  <2> QED BY <2>2 DEF RingInv
<1> QED BY <1>1, <1>2, <1>3, <1>4 DEF IInv

LEMMA InvariantStep == IInv /\ [Next]_vars => IInv'
<1> SUFFICES ASSUME IInv, [Next]_vars PROVE IInv'
  OBVIOUS
<1> USE DEF IInv
<1>0. step_index \in Nat
  BY DEF StatsInv
<1>1. ASSUME UNCHANGED <<time, profiler, pass>>
      PROVE  ProfilerInv' /\ CountersOfThisPass'
  BY <1>1 DEF ProfilerInv, CountersOfThisPass
<1>2. ASSUME UNCHANGED <<step_index, fields, stats>>
      PROVE  StatsInv'
  BY <1>2 DEF StatsInv, StatsOfOneCapture
<1>3. ASSUME UNCHANGED <<metrics, step_index>>
      PROVE  RingInv'
  BY <1>0, <1>3, RingKept
<1>4. CASE UNCHANGED vars
  BY <1>1, <1>2, <1>3, <1>4 DEF vars
<1>5. ASSUME NEW n \in 0..MaxOps, NEW memory \in BOOLEAN, NEW now \in Ticks,
             PassBegin(n, memory, now)
      PROVE  IInv'
  BY <1>2, <1>3, <1>5, BeginStep DEF PassBegin
<1>6. ASSUME NEW op \in 1..MaxOps, NEW ok \in BOOLEAN, ApplyOperator(op, ok)
      PROVE  IInv'
  BY <1>2, <1>3, <1>6, ApplyStep DEF ApplyOperator
<1>7. ASSUME NEW now \in Ticks, PassEnd(now)
      PROVE  IInv'
  BY <1>3, <1>7, EndStep, CaptureStep DEF PassEnd
<1>8. CASE sim_context_accept_step
  <2>1. StatsInv'
    BY <1>8, StatsCallStep
  <2>2. metrics' = metrics /\ step_index' \in Nat /\ step_index' >= step_index
    BY <1>0, <1>8 DEF sim_context_accept_step
  <2>3. RingInv'
    BY <2>2, RingKept
  <2> QED BY <1>1, <1>8, <2>1, <2>3 DEF sim_context_accept_step
<1>9. ASSUME NEW s \in Samples, RecordStepMetrics(s)
      PROVE  IInv'
  BY <1>1, <1>2, <1>9, RingRecorded DEF RecordStepMetrics
<1>10. ASSUME NEW on \in BOOLEAN, SetDrift(on)
       PROVE  IInv'
  BY <1>1, <1>2, <1>3, <1>10 DEF SetDrift
<1>11. ASSUME NEW R \in SUBSET (1..MaxFields), RequestStats(R)
       PROVE  IInv'
  <2>1. StatsInv'
    BY <1>11, StatsCallStep
  <2> QED BY <1>1, <1>3, <1>11, <2>1 DEF RequestStats
<1>12. ASSUME NEW grows \in BOOLEAN, AddField(grows)
       PROVE  IInv'
  <2>1. StatsInv'
    BY <1>12, StatsCallStep
  <2> QED BY <1>1, <1>3, <1>12, <2>1 DEF AddField
<1>13. ASSUME NEW mask \in Features, sim_context_set_field_stats_features(mask)
       PROVE  IInv'
  <2>1. StatsInv'
    BY <1>13, StatsCallStep
  <2> QED BY <1>1, <1>3, <1>13, <2>1 DEF sim_context_set_field_stats_features
<1> QED BY <1>4, <1>5, <1>6, <1>7, <1>8, <1>9, <1>10, <1>11, <1>12, <1>13 DEF Next

\* The clocks of the profiler, its counters, the marks of the statistics and the ring
\* agree in every state a context reaches, sim_context.c:1985 and 766.
THEOREM DiagnosticsInvariant == Spec => []IInv
BY InvariantInit, InvariantStep, PTL DEF Spec

\* A frame that is open, because its pass is running or has failed (sim_context.c:2027),
\* has no duration.
THEOREM OpenFramesHaveNoDuration == Spec => []OpenFrameHasNoDuration
<1>1. IInv => OpenFrameHasNoDuration
  <2> SUFFICES ASSUME IInv, profiler.active PROVE SnapshotTotal(profiler) = 0
    BY DEF OpenFrameHasNoDuration
  <2>1. profiler.start \in Nat /\ profiler.end \in Nat /\ profiler.end <= profiler.start
    BY DEF IInv, ProfilerInv, Profilers
  <2> QED BY <2>1 DEF SnapshotTotal
<1>2. QED
  BY <1>1, DiagnosticsInvariant, PTL

\* The profiler's counters count the operators of the running pass, whatever passes went
\* before it, sim_context.c:1985.
THEOREM CountersCountThisPass == Spec => []CountersOfThisPass
<1>1. IInv => CountersOfThisPass
  BY DEF IInv
<1>2. QED
  BY <1>1, DiagnosticsInvariant, PTL

\* The statistics marked as valid were computed in one capture with the features in
\* force, sim_context.c:766.
THEOREM StatsAreOfOneCapture == Spec => []StatsOfOneCapture
<1>1. IInv => StatsOfOneCapture
  BY DEF IInv, StatsInv
<1>2. QED
  BY <1>1, DiagnosticsInvariant, PTL

\* The ring of step metrics is a history of the latest samples, for any length of the
\* ring, sim_runtime_state.c:668.
THEOREM RingImplementsHistory == Spec => ImplementsHistory
<1>1. Init => Abstract!Init
  <2> SUFFICES ASSUME Init PROVE CopyStepMetrics(History) = << >>
    BY DEF Abstract!Init
  <2>1. RingInv /\ metrics.count = 0
    BY InvariantInit DEF IInv, Init
  <2>2. Len(Recent) = 0 /\ Recent \in Seq(Stored)
    BY <2>1, RecentSeq DEF RecentIsSeq
  <2> QED BY <2>2, EmptySeq DEF Recent
<1>2. IInv /\ [Next]_vars => [Abstract!Record]_(CopyStepMetrics(History))
  <2> SUFFICES ASSUME IInv, [Next]_vars
               PROVE  Abstract!Record \/ CopyStepMetrics(History)' = CopyStepMetrics(History)
    OBVIOUS
  <2>1. CASE \E s \in Samples : RecordStepMetrics(s)
    BY <2>1, RecordRefines DEF IInv
  <2>2. CASE metrics' = metrics
    BY <2>2 DEF CopyStepMetrics
  <2>3. metrics' = metrics \/ \E s \in Samples : RecordStepMetrics(s)
    BY DEF Next, vars, PassBegin, ApplyOperator, PassEnd, sim_context_accept_step, SetDrift,
           RequestStats, AddField, sim_context_set_field_stats_features
  <2> QED BY <2>1, <2>2, <2>3
<1>3. QED
  BY <1>1, <1>2, DiagnosticsInvariant, PTL DEF Spec, ImplementsHistory, Abstract!Spec
================================================================================
