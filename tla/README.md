# Oakfield: TLA+ models, checks and proofs

Oakfield is a C engine for field simulations: a *context* owns fields and
operators, a *planner* orders the operators, *integrators* advance a field by
evaluating the plan on candidate states, a *library* of more than seventy operators
is what runs on the fields, and *backends* run fused kernels. This directory models the engine's control logic in TLA+, checks it with TLC on small
instances and proves the main properties with TLAPS for every value of the
constants. Paths below are relative to the repository (`core/src/...`).

## 1. Inventory

| Component | State it keeps | Operations | What is hard | What makes it correct |
|---|---|---|---|---|
| Operator registry and planner (`operator.c`) | operator records, plan, scratch arrays of a resolution | register, `sim_operator_resolve_plan` | registration orders nobody tested, duplicate edges, cycles through access hazards, allocation failures midway | a plan is a permutation, honours dependencies and conflicts; a refusal is justified and leaves no partial plan |
| Async logger (`async_logger.c`) | ring of records, `head`, `tail` | log (many producers), pop, clear | lock-free interleavings, unsigned wrap-around, stale loads | records are whole, slots are taken once and in order, indices bounded |
| Memory accounting (`sim_context.c`, `operator_split.c`, `sim_flux_lens.c`) | three byte counters, limits, reservations | add field, promote, reserve, release, destroy | loops that fail half-way, saturating release, limits at the boundary | counters are exact, growth respects limits |
| Execution and drift mode (`sim_context.c`, `sim_scheduler_state.c`, `integrator.c`) | plan and its flag, drift depth, time override, dirty counters, snapshots | prepare, execute, begin/end drift, drift evaluation, step | evaluation on live state that must be undone, failing operators, stale plan, nesting | the executed plan is current, a drift evaluation leaves no trace, a step sees its own fields |
| Operator library (`core/src/operators`, `operator_split.c`) | configuration, declared accesses, private memory (clock, phase, generator, history and its snapshot, samples of a step), derived tables, symbol, static cache | add (kernel or split substeps), update, evaluate, save and restore, destroy | every operator keeps declaration, configuration and evaluation in step by itself; refused and half-done updates; kernels that hold old constants; hooks that run before what they save exists; substeps that share a block | an evaluation uses the current configuration, touches declared fields, never sees a NaN; drift puts the memory back; no freed block is referred to |
| Static stimulus cache (`static_cache.c`) | two planes, layout, validity | ensure, invalidate, destroy | growth of one plane and not the other, failed allocation, one request after another | planes have room for the layout and hold the samples of the configuration |
| Integrators (`integrators/src`) | suggestion, last step, workspaces, borrowed context | configure, step | retries, NaN errors, failing drift in the middle of a step, nodes and stages that change the context | the reported step is the one applied; the context is given back; a failed step leaves the field |
| Special-function faults (`sim_context.c` 603-631, 2566-2634) | fault report, fallback pair, spin lock | dispatch, set, read, clear | reads outside the lock, a fallback that calls back, a report that points into shared storage | reports are whole, a fallback is called with its own user data, nobody waits for ever |
| Diagnostics: profiler, kernel dispatch, step metrics, drift statistics (`sim_profiler.c`, `sim_context.c`, `sim_runtime_state.c`) | frame, counters, dispatch record, ring, statistics | pass, record, capture, read | a pass that fails leaves its frame open; ring arithmetic; validity marks of several requests | figures belong to one pass or capture; the ring is the history of the latest samples |
| Integrator registry and state (`integrator_registry.c`, `sim_integrator_state.c`) | active integrator, sequence, stepping pointer | set, advance | nesting of steps | stepping pointer restored on every return |
| World, fields, buffers, patches (`sim_world.c`, `field.c`, `field_patch.c`, `sim_buffer.c`) | storage, layout, representation | add, promote, patch | in-place promotion, views | layout fits storage |
| Noise sources, neural models, graph IR, plane charts, field statistics | streams, registries, expressions | — | — | — |
| Math, backends | none of their own that the core sees | evaluate | floating point | outside TLC's reach |

A context is driven by one thread; the async logger and the fault diagnostics are
the parts other threads touch. `sim_context_execute` calls the planner through
`sim_context_prepare_plan`, which first promotes fields (memory accounting), and
then applies the operators of the plan, each the step function or the kernel of a
library operator; integrators call both through `integrator_context_drift`, which
puts fields and operator memory back afterwards. `PROJECT.json` lists every
component with its status and every hazard at its source line.

## 2. Modules

| Module | Models |
|---|---|
| `PlanConstraints` | what an order of operators has to satisfy (constant operators: `DependsOn`, `Conflict`, `MustPrecede`, `ValidPlans`) |
| `PlanAbstract` | a planner that answers in one step: any valid plan, or a justified refusal |
| `OperatorPlan` | `sim_operator_resolve_plan_with_logger`: hazard scan one operator at a time, seeding, Kahn's sort one edge at a time |
| `AsyncLogger` | the logger, one action per atomic operation; a record has two halves, written and copied separately |
| `ContextMemory` | byte accounting; the promotion loop is one action per field |
| `ContextExecution` | plan validity, execution, drift evaluations and integrator steps; one action per operator applied |
| `OperatorKinds` | the vocabulary in which an operator of the library is described |
| `OperatorsStimulus`, `OperatorsNoise`, `OperatorsFields`, `OperatorsSites` | tables, one record per operator: stimuli, random stimuli and those with a static cache, operators on whole fields, operators on each site |
| `OperatorTables` | the four tables as one library, and the assumption that an instance takes its kinds from it |
| `StaticCache` | the cache of `static_cache.c` as a value |
| `OperatorLibrary` | the life of an operator of any kind of the table in a context; uses `StaticCache` |
| `StepSize`, `IntegratorWorkspace`, `IntegratorMethods` | step size control, scratch buffers and the table of the eight schemes |
| `Integrators` | `integrator_step_context` and the step functions; composes the three |
| `SpecialFault` | the fault lock and the functions that take it, one action per write or read |
| `StepHistory` | abstract: the latest samples in order |
| `ContextDiagnostics` | profiler, kernel dispatch record, ring of step metrics, drift statistics; shown to implement `StepHistory` |
| `MC_*` | instances for TLC |
| `*Proofs` | theorems, each extending the module it is about |

### OperatorPlan
A field list or mask is a set of fields; `last_writer` and `readers` are the
per-field scratch arrays of the C function; `edges` is the edge list with an index
that keeps duplicate dependencies apart (C counts them twice, too). Edge
collection only ever asks for membership and multiplicity, so a set of triples
loses nothing. Operators are numbered from 1, so 0 is "no writer". An allocation
may fail in any phase. The wording of the cycle report is left out.

### AsyncLogger
`size_t` differences are taken modulo `Word`. The fields of a record that are
written before the message (`hdr`) and the message (`msg`) carry the number of the
slot they were written for, which shows a mixture. The atomic macros of the C file
are sequentially consistent builtins; a half of a record is copied or written
atomically, which only removes behaviours, so the violations stand and a finer
model would have more of them. Pop and clear belong to the single consumer.

### ContextMemory
A field is its element count, whether its storage is complex and whether it is
marked complex. Element sizes are 1 and 2 where the code has 8 and 16. Split
operators and the two lens buffers each remember what they reserved. `Destroy` is
followed by a new `Init` of the same context (the limits stay a free choice
through `SetMemoryLimits`). A registration of a split operator that fails after
some substeps are in the registry is in `OperatorLibrary`.

### ContextExecution
The planner is used through what it promises (`ValidPlans`), which `OperatorPlan`
shows it keeps; promotion through its effect on the fields, which `ContextMemory`
models in detail. An operator's evaluation is arbitrary within the fields it
declares as written, and may fail after any part of it. Field contents are values
of a small set; `Scrambled` is what a complex field holds after the bytes of a
real one were copied over it. Assumed of operators: they touch no field they did
not declare; `saves` means that both hooks exist and `restore_state` does not
fail. `OperatorLibrary` shows for which operators that is so (`TouchesDeclared`,
`DriftLeavesMemory`, which excepts the evaluation that allocates a history). A failing `save_state` is covered by `OperatorFails`, since
it returns before anything changed. Left out: stable counters and warp mask (same
life as the dirty counters). `entry` and `stepEntry` are history variables.

### OperatorLibrary and its tables
Every operator has the same life: `sim_add_*_operator` normalizes a configuration,
checks the fields it names, and registers a kernel or split substeps with the
fields it declares; `sim_*_update` replaces the configuration; the step function or
the kernel evaluates it; the drift hooks save and restore. `OperatorLibrary` has one
action for each, with the differences between operators in a record of the table
`Kinds`. A record says, each part translated from one function of that operator's
file: what the normalizers of add and update make of a parameter that is not finite;
which ports (`field`, `input`, `output`, ...) the add declares and checks; whether
there is a kernel, what it binds, and whether its constants are in its expression,
patched by an update or read live; how many substeps share the block; what the
update checks, and whether before or after the assignment, whether it allocates,
what it derives anew, resets, and whether it drops the plan; what the step demands,
reads and writes, what it does for a zero gain, whether its accelerated row loop may
give up half-way; which private memory it moves and which of it the hooks save, whether
it keeps a history in buffers of the size of its field, and whether its kernel keeps
samples for the step, and by which key.

What an operator computes is left out: the configuration is one parameter (finite,
zero or not a number) and the field of each port; a field is its rank, size and
representation; private memory is the parity of its moves, except `samples`, which is
whether a kernel has values of the present step. Those kernels answer by what they have
as long as the step index and (all but two) the timestep are the same; `AcceptStep`
moves the index on, and an evaluation is with the timestep of the last one or with
another. `analytic_warp` and `thermostat` keep one element's value and recompute for
another one, so a repeated evaluation of the same element is what the model speaks of.
`capacity` and `snapshot` are the sizes of the history of `fractional_memory` and
`hysteretic` and of its snapshot: as in the code, the save hook has nothing to save
before an evaluation has allocated the history, and the restore hook does nothing where
the allocation has dropped the snapshot or outgrown it. Substeps that a failed
registration has left in the registry are evaluated (`OrphanEvaluates`) and destroyed
with the block that has been freed. An update offers any
gain and moves at most one port (`Offers`). Fields never change under an operator;
promotion is in `ContextMemory`. `Used` is the heart of the module: an evaluation
follows the configuration on the split path, and the registration on the kernel
path. Properties that some operators are known not to keep name them in a set
(`Unsanitized`, `OnePlaneAtATime`, `BakesConstants`, `Undeclared`, `KeepsOldSymbol`,
`Hookless`); the sets are exact on this instance: every member breaks the property in
some reachable state, and the rest of the library is shown to
keep it. `Vetted` is the set of the operators whose checks suffice for their steps.
`FillsWithinPlanes` and `SharedStateIsLive` are what headers promise and the code does
not keep (section 5). Two things an evaluation may do wrong have no property, because it
is the tables themselves that say which operators do it: a row added to twice, when a
loop that checks each row gives up (`twice`), and an answer by samples that a kernel has
kept from another stage of the step (`Reuses`).

### Integrators
A timestep is a natural number, 0 for a request that is not positive, or NaN. An
error is on one side of the tolerance or not a number, and `integrator_suggest_dt`
is the set of results such errors may lead to. A result computed with a NaN has a NaN
for its error in a complex field only: the norms of a real field take their maximum by
`fmax`, which loses it, so that its error is small and the attempt accepted
(`Estimates`). Comparisons with a NaN are those of IEEE arithmetic; the core, unlike the
integrators, is compiled with `-ffast-math` unless `OAKFIELD_ENABLE_FAST_MATH` is off,
and its `isfinite` checks are only as good as the compiler leaves them. A scheme is a
record: its loop (attempts, iterations, quadrature, stages), buffers, number of drift
evaluations, and how it treats the suggestion. `call` is the running step function: `step` is the
size being tried, `tried` the one the latest result was computed with. An
evaluation of the drift is one step, since `ContextExecution` shows that it leaves
no trace; the nodes of subordination and the stages of etdrk4 are not, because they
change the timestep, the clock and the field while they run. `feedback` is the time
that split operators with an error measure report (`sim_split_notify_integrator`).
A workspace is the sizes of its buffers and what the integrator believes of them.
Left out: the formulas, the noise, and integrators stepped without a context.

### SpecialFault
One action per write or read under or outside the lock. A report stands for its
function name as well, and a fallback for its user data, so that a pair is whole
when its halves are equal. A fallback runs without the lock and may call the
interface again (`inside`). The lock spins: an attempt that fails is not a step.

### ContextDiagnostics
A pass applies its operators one by one, may fail at each, and opens and closes the
profiler's frame; the clock ticks in between. A kernel dispatch chooses requested,
executed and fallback backend as the code's branches do; which kernels a backend
declines is left open. The ring is `slots`, `head`, `count`; the refinement mapping
reads it as the copy function does. The snapshot arrays of the capture
(`sim_context.c` 794-855) are not modelled.

## 3. Runs

| Run | Bounds | States | Shows |
|---|---|---|---|
| `plan` | 2 fields, up to 3 operators, every read set, at most one written field, dependencies on earlier, later and same operator, duplicated and out of range | 160,970 | conflict order, justified refusals, refinement of `PlanAbstract`; every resolution returns |
| `logger_shared` | ring of 2, 2 producers, 3 logs, 1 clear | 377,766 | bounded overshoot of `tail`; slots taken once and in order; pop returns |
| `memory` | 3 fields of 1 or 3 elements, 2 split operators, lens lengths 0-2, `SIZE_MAX` 15, three sets of limits | 329,289 | exact counters, limits |
| `execution` | 2 fields, 2 operators, 2 values, drift depth 2 | 1,182,657 | current plan, traceless drift, isolated steps, counters |
| `library` | the whole library; 3 real planes, a complex plane, a longer complex line, a cube, and an index without field | 77,054 | the eight properties of the operators' life |
| `integrators` | bounds 2..5, requests NaN, 0, 3, 7, safety 0.9 and 2.5, hints 0 and 2, three fields, 3 and 2 attempts, 2 iterations, 2 nodes | 696,030 | step sizes, reports, what is given back, buffers, shorter retries; every step returns |
| `special_fault` | 2 threads, 2 reports, 2 fallbacks, 4 calls | 55,662 | whole reports, fallbacks with their data; every call returns |
| `diagnostics` | 2 operators, 2 fields, 5 calls, 2 ticks, ring of 2 | 2,141,060 | open frames, counters, statistics, refinement of `StepHistory` |
| `orphans` | the fields of `library`, and `mixer`, which registers three substeps | | what a failed add leaves in the registry, see section 5 |
| `logger_torn`, `logger_deaf`, `cache_planes` | as small as the trace needs | | disagreements of code and documentation, see section 5 |

Why the bounds are enough: three operators give every write-read-write pattern on
a field and a cycle through a hazard and a dependency. A ring of two slots is lapped
with three logs, and two producers are what the compare-exchange race needs; the
code's minimum of 64 only takes longer to get there. `Word` is far above every
index the bound on logs allows, so wrap-around happens only where a difference is
negative, as in the code. In `memory` the smallest `SIZE_MAX` is chosen that fields
and scratch together can exceed, and each limit is reached by some sequence. In
`execution` depth two is a drift evaluation inside a caller's own drift mode; the
code's saturation at `UINT32_MAX` nested calls is not modelled. In `library` an
operator has at most a handful of ports; three equal planes let them all differ,
and the other fields differ from a plane in representation, in size and
representation, and in rank alone; one operator suffices, since operators share
only fields. In `integrators` the bounds give a request below, between and above
them, a safety factor on each side of two, and enough attempts for a first, a middle
and a last one (8 and 6 in the code); a second iteration or node is what a loop
needs (12 and 128). In `special_fault` two threads and a call from inside a fallback
make every pair of calls overlap. In `diagnostics` three samples wrap the ring, and
five calls are a failed pass followed by a whole one with another plan and captures
between them.

Values are symmetric in `execution` and the three planes in `library`; no other run
uses symmetry. Runs check for deadlock, except `special_fault` and `diagnostics`,
whose callers stop after `MaxCalls` calls. Properties that are proved for every value
of the constants and that no plausible slip reaches without breaking one of the
others (types, the inductive invariants, permutation and dependencies of a plan,
complete preparation, confined override) are not repeated in the runs.

Every property of a passing run has a mutant in `PROJECT.json`: a plausible bug of
one definition under which TLC reports that property.

**Fairness.** `OperatorPlan` has weak fairness on the steps of a running
resolution, `AsyncLogger` on the steps of calls that have begun, `SpecialFault` on
the steps of each thread, `Integrators` on those of a running step: a thread inside a
function goes on executing it. Nothing obliges a caller to call. For `SpecialFault`
weak fairness of a thread that spins is enough, as calls are bounded; with an
endless supply of calls a spin lock may starve a thread, and the model says nothing
about that. `PollingSpec` adds that the consumer keeps calling pop, for the one
property about a consumer that polls. The others have no liveness properties and no
fairness: their calls are loops over finite tables.

## 4. Proofs

Every safety property that a passing run checks is a theorem. All for every value of
the constants, from the named assumptions only
(`DescriptorsAssumption`, `LoggerAssumption`, `MemoryAssumption`,
`ExecutionAssumption`, `FaultAssumption`, `DiagnosticsAssumption`, `DtAssumption`,
`IntegratorAssumption`, `LibraryAssumption`, `TableAssumption`: types, finiteness of
the set of producers, a real scalar is
smaller than a complex one, holders of scratch are distinct, `min_dt` is positive and
below `max_dt`, at least two attempts, an instance of the library takes its kinds from
the tables).

* `OperatorPlanProofs`. `IInv` adds to the types what the scan has recorded
  (`ScanInv`), that degrees count unrelaxed edges (`DegreeInv`) and what the queue
  holds (`QueueInv`). The scan records only the *nearest* conflict of a field, so
  `ConflictInv` is stated over every numbering that respects the edges: it is the
  transitive closure without an induction. `DegreeInv` needs cardinalities because
  of duplicate edges. From `IInv`: permutation, dependencies, conflicts; a refusal
  is justified because the operators left over would each need an earlier one
  among them in any valid plan. `PlannerRefinesAbstract` is the safety part of the
  refinement.
* `AsyncLoggerProofs`. The bound on `tail` counts the producers that may still
  advance it; the proof is a cardinality argument over the producers in flight.
  `PopsAdvance` needs that the last slot taken is below every `tail` a later pop
  can load, except the one that `clear` stores, which is not below it either.
  `OneProducerKeepsPending` is what the ring does guarantee: with one producer, until
  `clear` is called, a pending slot that is not being filled holds its record whole.
  Its invariant (`RingInv`) bounds `head - tail` at each place of the log call, through
  the value of `tail` it has loaded, and needs only that the capacity is below the
  word, so that a distance that is not negative is not wrapped.
* `ContextMemoryProofs`. `IInv`: types, agreement of the counters, and that the
  promotion loop leaves nothing behind it. `BytesCounted` compares a counter with the
  number of bytes in use as the cardinality of the set of all of them (`Storage`), so
  that no sum over the fields has to be unfolded: one that grows or shrinks changes
  the set by as many elements (`StorageChange`), and the saturating release never has
  to saturate because what it releases is part of that set.
* `ContextExecutionProofs`. `IInv` adds to the properties what each phase of a
  call knows (`CallInv`) and what connects fields, operators and snapshots during
  a drift evaluation (`DriftInv`). `DriftLeavesNoTrace` and `ContinuityCounted`
  follow from it step by step.
* `SpecialFaultProofs`. The invariant says who has the lock, which writes its holder
  has left, and what a dispatch has copied: a report is only in two halves while
  someone has the lock, and what a dispatch read as a pair is one unless the hook was
  written after it let go of the lock (`replaced`).
* `ContextDiagnosticsProofs`. The profiler's clocks are ordered and its counters are
  those of the operators done; valid statistics carry the features and the step of
  the latest capture. `RingImplementsHistory` maps the ring to a sequence: the
  invariant needed is that slots before the ring has filled are those below `head`,
  and that steps in the ring do not decrease.
* `IntegratorsProofs`. `IInv` says at each place of a call which scheme it can belong
  to (`InLoop`), what it holds of the context (`Lent`), which step sizes are possible
  (`StepInv`) and what the field and the report may be (`ResultInv`). That a NaN is
  discarded in a complex field (`NaNIsDiscarded`) rests on three facts: only an explicit
  scheme with error control produces one, its error is then a NaN, and the attempt is
  the first of at least two. In a real field it is false, and the theorem does not say
  it. The lemmas on `integrator_reject_dt` show that it shortens any step
  above `min_dt` whatever it is offered. `BuffersFit` has an invariant of its own
  (`BufferInv`): every allocated buffer has the length the workspace claims for all of
  them, and one may be missing only while that length is at most the hint. Then a call
  for a longer field replaces them all, and one for a shorter field finds them or
  allocates what is missing at the same length. A failure that was not a resize keeps
  the invariant; one in a resize does not, which is what `starved` records.
* `OperatorLibraryProofs`. A promise of the library has two halves. The first is about
  an operator of any kind: a condition on its record (`Sanitizes`,
  `RenewsSymbol`, `ChecksFields`, `FollowsUpdates`, `DeclaresWrites`, `DeclaresReads`,
  `PutsBack`, `OnField`, `RenewsCache`) and an inductive invariant that every step
  keeps where the condition holds (`FiniteInv`, `SymbolInv`, ...), all on top of the
  types and of the fact that what has not been added has no past (`Base`). The second
  is about the tables: which of the 72 operators meet which condition (`Keeps`), one
  leaf for each. So the exceptions that the properties name are proved to be the only
  ones, for any set of fields; and an operator that is added to the tables has to meet
  the conditions or be named. `DriftRestoresMemory` says what the hooks do achieve: a
  drift evaluation puts clock, phase, generator and history back where the history has
  its buffers already; where it has to allocate them (`Resizes`) it does not.

Only model-checked: liveness under fairness (`ResolveReturns`, `ConsumerReturns`,
`CallsReturn`, `StepReturns`) and the liveness part of the refinement of
`PlanAbstract`, which are outside the prover's reach.

## 5. Disagreements found

| Run | Property | In short |
|---|---|---|
| `logger_torn` | `PoppedRecordIsWhole` | a slot is visible before its record is written |
| `logger_deaf` | `LoggedIsSeen` | a consumer faster than a producer makes the unsigned distance wrap; `tail` stays ahead of `head` and complete records are never handed out |
| `cache_planes` | `FillsWithinPlanes` | the imaginary plane of a static cache does not grow with the layout, and is filled beyond its end |
| `orphans` | `SharedStateIsLive` | when a later substep cannot be registered the shared block is freed while earlier ones stay in the registry, to be evaluated and destroyed |

Each is quoted with its lines in `PROJECT.json` under `findings`. Met while
modelling and visible in the modules, without a run of their own:

* Logger: two producers may lap the ring and drop a record between them
  (`async_logger.c:135`); `clear` may move `tail` back by storing a `head` it loaded
  before log calls on a full ring moved `tail` past it. `PopsAdvance` shows that no
  slot is handed out twice even so.
* Execution: a drift evaluation that prepares the plan itself promotes a field behind
  its snapshot (`integrator.c:501`; inside `integrator_step_context` it cannot), and
  it resets the dirty counters that step metrics are made from (`sim_context.c:1996`);
  the norm budget scales fields read by index although its comment says only written
  ones (`sim_context.c:2904`, `2933`).
* Library: a kernel that fills each plane by itself keeps the old imaginary plane
  after an update (`UsesCurrentValues`); rows are added to twice where an
  accelerated row loop gives up (`octave_noise_common.c:511`, `gaussian.c:475` and the
  others marked `rowwise` in the tables, in builds with `SIM_HAVE_VDSP`), although
  `octave_noise_common.h:119` says that false asks for the scalar fallback;
  a refused update of `phase_rotate` leaves the new
  configuration; kernels of `BakesConstants` ignore updates; the field of `dispersion` can be
  changed by an update although `dispersion.h:56` says it cannot; some headers
  (`bessel_beam.h:85`) say that an update invalidates the plan, which it does not.
  Although `integrator.h:398` calls a drift evaluation side-effect free, some operators
  have no hooks for the memory they move (`Hookless`), and the evaluation that allocates
  the history of `fractional_memory` or `hysteretic` is not undone: the hook before it
  has found nothing to save (`fractional_memory.c:184`, `207`). Where kernels that keep
  samples are enabled (`OAKFIELD_ENABLE_EXPERIMENTAL_LEGACY_KERNELS`), they answer a
  later stage of a step with the samples of an earlier one, as step index and timestep
  are all they compare (`fractional_memory.c:356`, `dispersion.c:313`,
  `linear_dissipative.c:379`).
* Integrators: `subordination` ignores `max_dt` and a request that is not positive;
  the retry of the implicit schemes is not shorter with a safety factor of two or
  more (`Lengthens`), and one that never converges reports all its attempts; an error
  that is not a number leaves a NaN as the suggestion, and a real field takes the result
  of the attempt made with it (`integrator.c:987`, `rkf45.c:92`, `rk4.c:60`);
  `last_step`, "Timestep realized by the last update" (`integrator.h:139`), is the sum of
  what split operators report in all evaluations of the drift, whatever the step was
  (`integrator.c:1204`), and an already reduced step where every attempt was rejected
  (`rkf45.c:464`); a hint longer than the field,
  or a resize that fails half-way, leaves buffers that do not fit (`BuffersFit`); the
  timestep operators see is the request, not the clamped step (`integrator.c:1114`);
  a refused step keeps the timestep it set; a failed etdrk4 step leaves a stage in
  the field.
* Faults: the fallback and its user data are read outside the lock that writes them
  (`sim_context.c:621`), and a copied report keeps a pointer to the shared buffer of
  the function name (`sim_context.c:2616`).
* Diagnostics: a failed pass leaves the profiler's frame open; kernels without a
  backend or a field are not counted as dispatch attempts (`sim_diagnostics.h:36`); a
  copy of the step metrics with little room returns the oldest ones; nothing in the
  repository requests drift statistics.

## 6. Not modelled, and the plan

Floating-point kernels, special functions, backends and layout arithmetic are
outside TLC's reach; graph and kernel IR are a sequential compiler whose output only
matters through the numbers it computes. Noise streams matter to the core through
save and restore only. Not modelled though they could be: the registry of neural
models, the FFT plan cache, field patches and views, the sequence of integrators and
the registration of further schemes, the caller streak, driver depth and progress
of the runtime state, which are accessors.

Left for the proofs: `AsyncLogger` with one producer across a `clear` that no log call
overlaps, and the planner's scratch arrays as a refinement of the set of edges.
