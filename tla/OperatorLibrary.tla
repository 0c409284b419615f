--------------------------- MODULE OperatorLibrary ---------------------------
(***************************************************************************)
(* The life of an operator of core/src/operators in a context: it is added *)
(* as a kernel or as split substeps (core/src/operator_split.c), updated,   *)
(* evaluated, and evaluated in drift mode.  The operator may be of any kind *)
(* of the table Kinds; the fields of the context do not change.             *)
(*                                                                         *)
(* An add declares fields once and for all, an update replaces the          *)
(* configuration that names them, and an evaluation follows whichever of    *)
(* the two its path reads: every operator must keep the three in step by    *)
(* itself, and the library has more than seventy of them.                   *)
(***************************************************************************)
EXTENDS OperatorKinds, StaticCache, FiniteSets

CONSTANTS Kinds,       \* the table: a function from names to kinds
          Fields,      \* the fields of the context
          Missing,     \* an index no field has
          Rank, Size, Complex   \* the layout of each field

Index == Fields \cup {Missing}

Access == [reads : SUBSET STRING, writes : SUBSET STRING]
NeedSets == SUBSET (Demands \X SUBSET STRING)

\* The port whose field sizes the history of an operator.
HistoryPort(k) == IF "field" \in k.ports THEN "field" ELSE "input"

\* Buffers are for a field that the evaluation has looked at.
BuffersItsField(k) ==
  \/ k.memory.buffers = "none"
  \/ /\ k.memory.buffers \in {"with snapshot", "without snapshot"}
     /\ HistoryPort(k) \in k.add.reads \cup k.add.writes
     /\ k.step.idle # "early" /\ k.add.kernel.constants = "live"

\* What a table may hold.
WellFormed(k) ==
  /\ k.normalize \in Normalizers /\ k.renormalize \in Normalizers
  /\ k.step.needs \in NeedSets /\ k.add.needs \in NeedSets /\ k.update.needs \in NeedSets
  /\ k.add.reads \cup k.add.writes \subseteq k.ports
  /\ k.step.reads \cup k.step.writes \subseteq k.ports
  /\ k.add.kernel.reads \cup k.add.kernel.writes \subseteq k.ports
  /\ k.add.substeps \in Nat \ {0}
  /\ k.update.alloc \in {"none", "before", "after"}
  /\ k.memory.moved \subseteq Memories /\ k.memory.saved \subseteq Memories
  /\ k.update.resets \subseteq Memories
  /\ k.update.renews \subseteq Derived /\ k.update.early \subseteq Derived

ASSUME LibraryAssumption ==
  /\ Missing \notin Fields /\ "none" \notin DOMAIN Kinds
  /\ Rank \in [Fields -> Nat] /\ Size \in [Fields -> Nat \ {0}] /\ Complex \in [Fields -> BOOLEAN]
  /\ \A k \in DOMAIN Kinds : WellFormed(Kinds[k]) /\ BuffersItsField(Kinds[k])

VARIABLES kind,       \* the operator's kind, "none" before it is added
          path,       \* "kernel" or "split"
          config,     \* the configuration in its state: gain and field of each port
          bound,      \* what it was registered with: its fields, and the gain in its kernel
          planned,    \* the scheduler's plan is valid
          memory,     \* its private memory: parity of the moves of each component;
                      \* of the samples, whether a kernel has some of this step
          capacity,   \* the size its history is allocated for, 0 without one
          snapshot,   \* the size its snapshot of the history is allocated for
          cached,     \* values derived from the configuration are kept
          stale,      \* what does not belong to the configuration any more
          cache,      \* its static cache
          faults,     \* what has gone wrong in an evaluation
          registered, \* substeps in the registry
          shared      \* their shared block has not been freed

operator == <<kind, path, config, bound>>
history == <<capacity, snapshot>>
values == <<cached, stale, cache>>
registration == <<registered, shared>>
vars == <<operator, planned, memory, history, values, faults, registration>>

K == Kinds[kind]
Added == kind # "none"
Static == K.memory.derives \in {"planes", "each plane"}
Configs(k) == [gain : Gains, fields : [k.ports -> Index]]
NoConfig == [gain |-> "set", fields |-> << >>]
Still == [m \in Memories |-> 0]
-------------------------------------------------------------------------------
\* Demands on fields.
Bound(c, P) == { c.fields[p] : p \in P }

Meets(d, P, c) ==
  LET F == Bound(c, P) \ {Missing}
  IN CASE d = "size"    -> \A f, g \in F : Size[f] = Size[g]
       [] d = "storage" -> \A f, g \in F : Complex[f] = Complex[g]
       [] d = "wide"    -> (\E f \in F : Complex[f]) => Complex[c.fields["output"]]
       [] d = "apart"   -> \A p, q \in P : p # q => c.fields[p] # c.fields[q]
       [] d = "planar"  -> \A f \in F : Rank[f] \in 1..2
       [] d = "surface" -> \A f \in F : Rank[f] >= 2
       [] d = "real"    -> \A f \in F : ~Complex[f]
       [] d = "complex" -> \A f \in F : Complex[f]

\* The ports P have fields, and these meet the needs N.
Fit(c, P, N) == /\ Missing \notin Bound(c, P)
                /\ \A n \in N : Meets(n[1], n[2], c)

\* The ports an operator cannot do without are those it declares.
Required(k) == k.add.reads \cup k.add.writes
-------------------------------------------------------------------------------
Init == /\ kind = "none" /\ path = "split" /\ config = NoConfig /\ bound = NoConfig
        /\ planned = FALSE
        /\ memory = Still /\ capacity = 0 /\ snapshot = 0
        /\ cached = FALSE /\ stale = {} /\ cache = EmptyCache
        /\ faults = {}
        /\ registered = 0 /\ shared = FALSE

\* sim_split_register: every port must have a field, then the substeps are registered
\* one by one, all with the same shared block.
SplitRegister(n) == registered' = n /\ shared' = TRUE

\* The n-th substep cannot be registered: the block is freed, and the substeps that
\* are in the registry stay there.
SplitFails(n) == registered' = n - 1 /\ shared' = FALSE

\* A sim_add_*_operator that succeeds.  A kernel is tried first where the context
\* allows kernels; if it cannot be registered the split operator is.
AddOperator(k, c, p) ==
  LET new == [c EXCEPT !.gain = Kinds[k].normalize["set"][c.gain]]
      compiled == p = "kernel" /\ Kinds[k].add.kernel.constants # "live"
  IN /\ ~Added /\ registered = 0
     /\ p = "kernel" => Kinds[k].add.kernel # NoKernel
     /\ Fit(new, Required(Kinds[k]), Kinds[k].add.needs)
     /\ kind' = k /\ path' = p
     /\ config' = new
     /\ bound' = IF compiled THEN new ELSE [new EXCEPT !.gain = "set"]
     /\ IF p = "kernel" THEN registered' = 1 /\ shared' = TRUE
                        ELSE SplitRegister(Kinds[k].add.substeps)
     /\ planned' = FALSE
     /\ cached' = (Kinds[k].memory.derives = "eager")
     /\ faults' = {}
     /\ UNCHANGED <<memory, history, stale, cache>>

\* One that fails while its substeps are registered; the state is destroyed.
AddFails(k, n) == /\ ~Added /\ registered = 0
                  /\ n \in 1..Kinds[k].add.substeps
                  /\ SplitFails(n)
                  /\ planned' = (planned /\ n = 1)
                  /\ faults' = {}
                  /\ UNCHANGED <<operator, memory, history, values>>
-------------------------------------------------------------------------------
\* The configuration an update would store for the caller's c.
Renewed(c) == [gain |-> K.renormalize[config.gain][c.gain],
               fields |-> IF K.update.assigns = "pinned" THEN config.fields ELSE c.fields]

Acceptable(c) == /\ K.update.assigns = "same" => c.fields = config.fields
                 /\ K.update.order # "never" => Fit(Renewed(c), Required(K), K.update.needs)

\* The configuration becomes c and the values in D are derived anew, or dropped
\* until the next evaluation.
Assign(c, D) ==
  /\ config' = c
  /\ cached' = (cached /\ ("cache" \notin D \/ K.memory.derives = "eager"))
  /\ stale' = (stale \ D) \cup
                {d \in Derived \ D : c # config /\ (d = "cache" => cached)}
  /\ cache' = LET kept == IF c = config THEN cache ELSE [cache EXCEPT !.current = {}]
              IN IF Static /\ "cache" \in D THEN Invalidated(kept) ELSE kept

\* The memory an update leaves when it resets the components in S.
Reset(S) == [m \in Memories |-> IF m \in S THEN 0 ELSE memory[m]]

\* A sim_*_update that succeeds.
UpdateOperator(c, reshaped) ==
  /\ Added /\ Acceptable(c)
  /\ reshaped => K.update.reshapes
  /\ Assign(Renewed(c), K.update.renews)
  /\ bound' = IF path = "kernel" /\ K.add.kernel.constants = "patched"
                THEN [bound EXCEPT !.gain = Renewed(c).gain] ELSE bound
  /\ IF reshaped THEN /\ memory' = Reset(K.update.resets \cup {"history"})
                      /\ capacity' = 0 /\ snapshot' = 0
                 ELSE memory' = Reset(K.update.resets) /\ UNCHANGED history
  /\ planned' = (planned /\ ~K.update.replans)
  /\ UNCHANGED <<kind, path, faults, registration>>

\* One that fails, in a check or for want of memory, changes nothing unless the
\* configuration was assigned before.
AssignsBeforeFailing(c) == IF Acceptable(c) THEN K.update.alloc = "after"
                                            ELSE K.update.order = "after"

UpdateRefused(c) ==
  /\ Added
  /\ ~Acceptable(c) \/ K.update.alloc # "none"
  /\ IF AssignsBeforeFailing(c) THEN Assign(Renewed(c), K.update.early)
                                ELSE UNCHANGED <<config, values>>
  /\ memory' = Reset(IF AssignsBeforeFailing(c) /\ "cache" \in K.update.early
                      THEN K.update.resets ELSE {})
  /\ UNCHANGED <<kind, path, bound, planned, history, faults, registration>>

\* The plan is resolved before the next step.
PreparePlan == /\ registered > 0 /\ ~planned
               /\ planned' = TRUE
               /\ UNCHANGED <<operator, memory, history, values, faults, registration>>
-------------------------------------------------------------------------------
\* The configuration an evaluation follows: a kernel's bindings are those of its
\* registration, and its constants those of its expression unless they are live.
Used == IF path = "split" THEN config
        ELSE [bound EXCEPT !.gain = IF K.add.kernel.constants = "live" THEN config.gain ELSE @]

\* The expression of a kernel, rather than a function it calls, is what runs.
Compiled == path = "kernel" /\ K.add.kernel.constants # "live"

Idle(when) == path = "split" /\ K.step.idle = when /\ Used.gain = "zero"

\* The evaluation goes through; otherwise it returns an error before it has touched
\* a field.  The expression of a kernel has nothing to check.
Evaluates == \/ Compiled
             \/ Idle("early")
             \/ Fit(Used, Required(K), K.step.needs)

\* The fields an evaluation reads and writes.
PortsRead == IF path = "kernel" THEN K.add.kernel.reads ELSE K.step.reads
PortsWritten == IF path = "kernel" THEN K.add.kernel.writes ELSE K.step.writes
Reads == Bound(Used, PortsRead) \ {Missing}
Writes == Bound(Used, PortsWritten) \ {Missing}

\* The fields the registry was told it reads and writes.
DeclaredReads == Bound(bound, IF path = "kernel" THEN K.add.kernel.reads ELSE K.add.reads)
DeclaredWrites == Bound(bound, IF path = "kernel" THEN K.add.kernel.writes ELSE K.add.writes)

\* The evaluation contributes something.
Acts == Used.gain = "zero" => K.step.idle = "never"

\* A kernel that has samples of this step answers by them if it is asked for the same
\* timestep, and some kernels whatever the timestep.
HasSamples == path = "kernel" /\ "samples" \in K.memory.moved /\ memory["samples"] = 1
Reuses(same_dt) == HasSamples /\ (K.memory.keyed = "step" \/ same_dt)

\* The number of reals the history of an evaluation has to hold for each step.
Entries(f) == IF Complex[f] THEN 2 * Size[f] ELSE Size[f]
Extent == Entries(Used.fields[HistoryPort(K)])
Resizes == K.memory.buffers # "none" /\ capacity # Extent

\* What the evaluation does to the operator itself: the expression of a kernel keeps
\* no memory, and a history begins again in buffers of another size.
Moves(same_dt) == IF Compiled \/ Idle("early") \/ Reuses(same_dt) THEN {}
                  ELSE {m \in K.memory.moved : m = "samples" => path = "kernel"}
Moved(same_dt) ==
  [m \in Memories |-> CASE m \notin Moves(same_dt) -> memory[m]
                       [] m = "samples" \/ (m = "history" /\ Resizes) -> 1
                       [] OTHER -> 1 - memory[m]]
Caches == cached \/ (K.memory.derives = "lazy" /\ Acts)

\* The buffers of the history get the size of the field, and take with them a snapshot
\* that has the size taken.
Prepares(taken, same_dt) ==
  IF Resizes /\ ~Reuses(same_dt)
  THEN /\ capacity' = Extent
       /\ snapshot' = IF K.memory.buffers = "with snapshot" THEN 0 ELSE taken
  ELSE capacity' = capacity /\ snapshot' = taken

\* The requests it makes of its static cache, in order: a kernel that fills each plane
\* by itself asks for the real one first.
Target == Used.fields["field"]
Layout == <<Rank[Target], Size[Target]>>
Complete == Complex[Target]
FirstNeed == Complete /\ ~(path = "kernel" /\ K.memory.derives = "each plane")
Once == Ensured(cache, Layout, FirstNeed)
Twice == Ensured(Once, Layout, Complete)
Cache == IF Static /\ Acts THEN Twice ELSE cache

\* What can go wrong: a value that is not finite, a row added to twice, samples written
\* beyond the end of a plane, values of another configuration.
Faults(row_fails) ==
  {f \in {"nan", "twice", "overrun", "outdated"} :
     CASE f = "nan"      -> Acts /\ Used.gain = "nan" /\ Writes # {}
       [] f = "twice"    -> row_fails
       [] f = "overrun"  -> /\ Static /\ Acts
                            /\ \/ Overruns(cache, Layout, FirstNeed)
                               \/ Overruns(Once, Layout, Complete)
       [] f = "outdated" -> /\ Acts
                            /\ \/ "cache" \in stale
                               \/ Static /\ ~(Filled(Complete) \subseteq Twice.current)}

\* An evaluation, with the timestep of the one before it or with another.  The check of
\* a row may fail after earlier rows have been added to: the plain loop then adds to all
\* of them.
Evaluate(row_fails, same_dt) ==
  /\ Added /\ planned /\ Evaluates
  /\ row_fails => path = "split" /\ Acts /\ K.step.rows = "rowwise"
  /\ ~same_dt => HasSamples
  /\ memory' = Moved(same_dt) /\ Prepares(snapshot, same_dt)
  /\ cached' = Caches /\ cache' = Cache
  /\ faults' = faults \cup Faults(row_fails)
  /\ UNCHANGED <<operator, planned, stale, registration>>

\* One that finds no memory for its static cache.
EvaluateFails ==
  /\ Added /\ planned /\ Evaluates
  /\ Static /\ Acts
  /\ cache' = EnsureFailed(cache, Layout, Complete)
  /\ UNCHANGED <<operator, planned, memory, history, cached, stale, faults, registration>>

\* The hooks save a history that has been allocated, and put it back if their snapshot
\* is still there and large enough when the evaluation is over.
Saved == IF snapshot < capacity THEN capacity ELSE snapshot
Restored == K.memory.saved \ (IF snapshot' < capacity' THEN {"history"} ELSE {})

\* An evaluation in drift mode: the fields are put back by the caller, the memory by
\* the operator's hooks.  An observer of sound does nothing in drift mode.
DriftEvaluate(same_dt) ==
  /\ Added /\ planned /\ Evaluates
  /\ ~same_dt => HasSamples
  /\ Prepares(Saved, same_dt)
  /\ memory' = [m \in Memories |-> IF m \in Restored \/ ~K.step.drifts
                                   THEN memory[m] ELSE Moved(same_dt)[m]]
  /\ cached' = (IF K.step.drifts THEN Caches ELSE cached)
  /\ cache' = Cache
  /\ UNCHANGED <<operator, planned, stale, faults, registration>>

DriftEvaluates == \E same_dt \in BOOLEAN : DriftEvaluate(same_dt)

\* A substep that an add which failed has left behind is evaluated.
OrphanEvaluates == /\ ~Added /\ registered > 0 /\ ~shared /\ planned
                   /\ faults' = faults \cup {"freed"}
                   /\ UNCHANGED <<operator, planned, memory, history, values, registration>>

\* The step is accepted: the samples of a kernel are no longer those of the step.
AcceptStep == /\ Added /\ memory["samples"] = 1
              /\ memory' = Reset({"samples"})
              /\ UNCHANGED <<operator, planned, history, values, faults, registration>>

\* The context is destroyed, and its operators with it: each looks at the shared block.
Destroy == /\ registered > 0
           /\ kind' = "none" /\ path' = "split" /\ config' = NoConfig /\ bound' = NoConfig
           /\ planned' = FALSE
           /\ memory' = Still /\ capacity' = 0 /\ snapshot' = 0
           /\ cached' = FALSE /\ stale' = {} /\ cache' = EmptyCache
           /\ faults' = (IF shared THEN {} ELSE {"freed"})
           /\ registered' = 0 /\ shared' = FALSE
-------------------------------------------------------------------------------
\* The bound on updates: any gain, and at most one port away from its field.
Offers == { [gain |-> g, fields |-> [bound.fields EXCEPT ![p] = i]] :
              g \in Gains, p \in K.ports, i \in Index }

Next == \/ /\ ~Added
           /\ \E k \in DOMAIN Kinds, p \in {"kernel", "split"} :
                \E c \in Configs(Kinds[k]) : AddOperator(k, c, p)
        \/ /\ ~Added
           /\ \E k \in DOMAIN Kinds : \E n \in 1..Kinds[k].add.substeps : AddFails(k, n)
        \/ Added /\ \E c \in Offers, reshaped \in BOOLEAN : UpdateOperator(c, reshaped)
        \/ Added /\ \E c \in Offers : UpdateRefused(c)
        \/ PreparePlan
        \/ \E row_fails, same_dt \in BOOLEAN : Evaluate(row_fails, same_dt)
        \/ EvaluateFails \/ DriftEvaluates \/ OrphanEvaluates \/ AcceptStep \/ Destroy

Spec == Init /\ [][Next]_vars
-------------------------------------------------------------------------------
TypeOK == /\ kind \in DOMAIN Kinds \cup {"none"} /\ path \in {"kernel", "split"}
          /\ Added => config \in Configs(K) /\ bound \in Configs(K)
          /\ {planned, cached, shared} \subseteq BOOLEAN
          /\ memory \in [Memories -> 0..1]
          /\ capacity \in Nat /\ snapshot \in Nat
          /\ stale \subseteq Derived
          /\ faults \subseteq {"nan", "twice", "overrun", "outdated", "freed"}
          /\ registered \in Nat

\* The kinds that are known not to keep a promise below.
Unsanitized == {"fractional_memory", "linear_dissipative", "stochastic_noise", "thermostat"}

OnePlaneAtATime == {"fbm", "hybrid_fbm", "multifractal", "ridged_noise", "turbulence",
                    "worley_noise"}

BakesConstants == {"checkerboard", "digamma_square", "gabor", "gaussian", "heat_kernel",
  "mixer", "phase_feature", "remainder", "sinusoidal", "spatial_derivative",
  "spectral_lines", "stochastic_noise"}

Vetted == {"copy", "curl", "divergence", "gradient", "hysteretic", "laplacian",
  "minimal_convolution", "mixer", "neural_hybrid", "neural_infer", "ornstein_uhlenbeck",
  "scale", "sdr_observer", "segmented_sieve_mark", "segmented_sieve_mark_batch",
  "spatial_derivative", "zero_field"}

Undeclared == {"chaos_map", "digamma_square", "thermostat"}

KeepsOldSymbol == {"coordinate", "elementwise_math", "linear_dissipative",
                   "log_spectral_grid", "sieve"}

Hookless == {"digamma_square", "fourier", "gabor", "heat_kernel", "ornstein_uhlenbeck",
  "sdr_observer", "stochastic_noise", "white_noise"}

\* A parameter that is not a finite number never reaches a field, whichever of add and
\* update it was given to: the normalizers replace it.
FiniteStaysFinite == "nan" \in faults => kind \in Unsanitized

\* What an evaluation adds was computed from the configuration of its latest update,
\* however updates, refused updates and evaluations of fields of other layouts are
\* mixed.  A static cache that a kernel fills plane by plane keeps the old second
\* plane, and two updates assign before they have the memory for the new tables.
UsesCurrentValues ==
  "outdated" \in faults => \/ kind \in {"log_spectral_grid", "sieve"}
                           \/ kind \in OnePlaneAtATime /\ path = "kernel"

\* The real plane of a static cache has room for the layout it is valid for, after any
\* sequence of layouts, invalidations and failed allocations.
RealPlaneFits == cache.valid => cache.real >= Count(cache.layout)

\* An operator whose add and updates check the fields they are given can be evaluated
\* ever after: what they check is enough for what its step demands.
AcceptedEvaluates == Added /\ kind \in Vetted => Evaluates

\* What an evaluation uses is what the operator's configuration says, on whatever path
\* it was registered, except in the kernels whose expression holds the constants of the
\* registration and in that of phase_rotate once a late check has refused an update.
UpdatesTakeEffect ==
  Added /\ Used.gain # config.gain => kind \in BakesConstants \cup {"phase_rotate"}

\* Until an update moves the operator to other fields, an evaluation touches no field
\* that the planner was not told of.
TouchesDeclared ==
  Added /\ config.fields = bound.fields =>
    /\ Writes \subseteq DeclaredWrites
    /\ Reads \subseteq DeclaredReads \/ kind \in Undeclared

\* The symbol an operator shows is that of its configuration, after refused updates too.
SymbolCurrent == "symbol" \in stale => kind \in KeepsOldSymbol

\* Evaluating an operator for its drift leaves its memory as it was: what a step moves
\* the hooks put back, unless the step has to allocate the history, for the first time
\* or for a field of another size.  The samples of a kernel they leave.
DriftLeavesMemory ==
  [][memory' # memory /\ DriftEvaluates =>
       \/ kind \in Hookless \/ Resizes
       \/ \A m \in Memories \ {"samples"} : memory'[m] = memory[m]]_vars

\* static_cache.h says of the callback that fills a cache that it "receives already
\* allocated output buffers with layout->count entries".
FillsWithinPlanes == "overrun" \notin faults

\* operator_split.h says of the shared state: "When the registered substep operators are
\* destroyed, the optional destroy callback receives that shared state once."
SharedStateIsLive == "freed" \notin faults
==============================================================================
