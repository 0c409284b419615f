------------------------ MODULE OperatorLibraryProofs ------------------------
(***************************************************************************)
(* Proofs about OperatorLibrary, for every selection of the operators of   *)
(* the tables and for all fields, whatever their number and layouts.       *)
(*                                                                         *)
(* A promise of the library has two halves.  The first is about the life   *)
(* of an operator of any kind whatever: a condition on the kind, such as   *)
(* Sanitizes, and an invariant that the steps preserve where the condition *)
(* holds.  The second is about the tables: which of the operators meet the *)
(* condition, one leaf per operator and all conditions at once (Keeps).    *)
(* The theorems at the end join the two.                                   *)
(***************************************************************************)
EXTENDS OperatorTables, TLAPS

\* An operator that has not been added has no past.
Fresh == ~Added => /\ memory = Still /\ capacity = 0 /\ snapshot = 0
                   /\ cached = FALSE /\ stale = {} /\ cache = EmptyCache
                   /\ faults \subseteq {"freed"}

Base == TypeOK /\ Fresh
-------------------------------------------------------------------------------
\* The kinds of the table are well formed.
LEMMA WellFormedKind ==
  ASSUME NEW k \in DOMAIN Kinds
  PROVE  WellFormed(Kinds[k])
BY LibraryAssumption

\* A normalizer returns one of the three gains.
LEMMA NormalizerGain ==
  ASSUME NEW n \in Normalizers, NEW old \in Gains, NEW new \in Gains
  PROVE  n[old][new] \in Gains
BY DEF Normalizers

\* What an update stores is a configuration of the operator's ports.
LEMMA RenewedConfig ==
  ASSUME TypeOK, Added, NEW c \in Offers
  PROVE  /\ c \in Configs(K)
         /\ Renewed(c) \in Configs(K)
<1>1. /\ kind \in DOMAIN Kinds /\ WellFormed(K)
      /\ config \in Configs(K) /\ bound \in Configs(K)
  BY WellFormedKind DEF TypeOK, Added, K
<1>2. PICK g \in Gains, p \in K.ports, i \in Index :
        c = [gain |-> g, fields |-> [bound.fields EXCEPT ![p] = i]]
  BY DEF Offers
<1>3. [bound.fields EXCEPT ![p] = i] \in [K.ports -> Index]
  BY <1>1 DEF Configs
<1>4. c \in Configs(K)
  BY <1>2, <1>3 DEF Configs
<1>5. K.renormalize[config.gain][c.gain] \in Gains
  BY <1>1, <1>4, NormalizerGain DEF WellFormed, Configs
<1>6. (IF K.update.assigns = "pinned" THEN config.fields ELSE c.fields) \in [K.ports -> Index]
  BY <1>1, <1>4 DEF Configs
<1>7. Renewed(c) \in Configs(K)
  BY <1>5, <1>6 DEF Renewed, Configs
<1> QED BY <1>4, <1>7

\* The derived values stay what they are when a configuration is assigned.
LEMMA AssignTypes ==
  ASSUME TypeOK, Added, NEW c \in Configs(K), NEW D, Assign(c, D), kind' = kind
  PROVE  config' \in Configs(K) /\ cached' \in BOOLEAN /\ stale' \subseteq Derived
BY DEF Assign, TypeOK
-------------------------------------------------------------------------------
\* A context without the operator satisfies the type invariant and has no past.
LEMMA BaseInit == Init => Base
<1> SUFFICES ASSUME Init PROVE Base
  OBVIOUS
<1>1. Still \in [Memories -> 0..1]
  BY DEF Still
<1>2. TypeOK
  BY <1>1 DEF Init, TypeOK, Added
<1> QED BY <1>2 DEF Base, Fresh, Init

\* A successful add stores a configuration of the kind that it adds, normalized.
LEMMA AddBase ==
  ASSUME Base, NEW k \in DOMAIN Kinds, NEW p \in {"kernel", "split"},
         NEW c \in Configs(Kinds[k]), AddOperator(k, c, p)
  PROVE  Base'
<1> DEFINE new == [c EXCEPT !.gain = Kinds[k].normalize["set"][c.gain]]
<1>1. WellFormed(Kinds[k])
  BY WellFormedKind
<1>2. Kinds[k].normalize["set"][c.gain] \in Gains
  BY <1>1, NormalizerGain DEF WellFormed, Configs, Gains
<1>3. new \in Configs(Kinds[k]) /\ [new EXCEPT !.gain = "set"] \in Configs(Kinds[k])
  BY <1>2 DEF Configs, Gains
<1>4. kind' = k /\ path' = p /\ config' = new
      /\ bound' \in {new, [new EXCEPT !.gain = "set"]}
  BY DEF AddOperator
<1> HIDE DEF new
<1>5. config' \in Configs(K') /\ bound' \in Configs(K')
  BY <1>3, <1>4 DEF K
<1>6. registered' \in {1, Kinds[k].add.substeps} /\ shared' = TRUE
  BY DEF AddOperator, SplitRegister
<1>7. cached' \in BOOLEAN /\ planned' \in BOOLEAN
  BY DEF AddOperator
<1>8. UNCHANGED <<memory, capacity, snapshot, stale, cache>> /\ faults' = {}
  BY DEF AddOperator, history
<1>9. TypeOK'
  BY <1>1, <1>4, <1>5, <1>6, <1>7, <1>8 DEF Base, TypeOK, WellFormed
<1>10. Added'
  BY <1>4, LibraryAssumption DEF Added
<1> QED BY <1>9, <1>10 DEF Base, Fresh

\* A failed add leaves a number of substeps, and no operator.
LEMMA AddFailsBase ==
  ASSUME Base, NEW k \in DOMAIN Kinds, NEW n \in 1..Kinds[k].add.substeps, AddFails(k, n)
  PROVE  Base'
<1>1. WellFormed(Kinds[k])
  BY WellFormedKind
<1>2. n - 1 \in Nat
  BY <1>1 DEF WellFormed
<1>3. registered' \in Nat /\ shared' \in BOOLEAN /\ planned' \in BOOLEAN
  BY <1>2 DEF AddFails, SplitFails
<1>4. /\ UNCHANGED <<kind, path, config, bound, memory, capacity, snapshot>>
      /\ UNCHANGED <<cached, stale, cache>> /\ faults' = {}
  BY DEF AddFails, operator, history, values
<1> QED BY <1>3, <1>4 DEF Base, TypeOK, Fresh, Added, K

\* An update stores a configuration of the same kind.
LEMMA UpdateBase ==
  ASSUME Base, NEW c \in Offers, NEW reshaped \in BOOLEAN, UpdateOperator(c, reshaped)
  PROVE  Base'
<1>1. Added /\ TypeOK
  BY DEF UpdateOperator, Base
<1>2. Renewed(c) \in Configs(K)
  BY <1>1, RenewedConfig
<1>3. UNCHANGED <<kind, path, faults, registered, shared>>
  BY DEF UpdateOperator, registration
<1>4. config' \in Configs(K) /\ cached' \in BOOLEAN /\ stale' \subseteq Derived
  BY <1>1, <1>2, <1>3, AssignTypes DEF UpdateOperator
<1>5. bound \in Configs(K) /\ Renewed(c).gain \in Gains
  BY <1>1, <1>2 DEF TypeOK, Configs
<1>6. [bound EXCEPT !.gain = Renewed(c).gain] \in Configs(K)
  BY <1>5 DEF Configs
<1>7. bound' \in Configs(K)
  BY <1>5, <1>6 DEF UpdateOperator
<1>8. memory' \in [Memories -> 0..1] /\ capacity' \in Nat /\ snapshot' \in Nat
  BY <1>1 DEF UpdateOperator, Reset, history, TypeOK
<1>9. planned' \in BOOLEAN
  BY DEF UpdateOperator
<1> QED BY <1>1, <1>3, <1>4, <1>7, <1>8, <1>9 DEF Base, TypeOK, Fresh, Added, K

\* So does a refused one, if it assigns at all.
LEMMA RefusedBase ==
  ASSUME Base, NEW c \in Offers, UpdateRefused(c)
  PROVE  Base'
<1>1. Added /\ TypeOK
  BY DEF UpdateRefused, Base
<1>2. Renewed(c) \in Configs(K)
  BY <1>1, RenewedConfig
<1>3. UNCHANGED <<kind, path, bound, planned, capacity, snapshot, faults, registered, shared>>
  BY DEF UpdateRefused, history, registration
<1>4. config' \in Configs(K) /\ cached' \in BOOLEAN /\ stale' \subseteq Derived
  <2>1. CASE AssignsBeforeFailing(c)
    BY <1>1, <1>2, <1>3, <2>1, AssignTypes DEF UpdateRefused
  <2>2. CASE ~AssignsBeforeFailing(c)
    BY <1>1, <2>2 DEF UpdateRefused, TypeOK, values
  <2> QED BY <2>1, <2>2
<1>5. memory' \in [Memories -> 0..1]
  BY <1>1 DEF UpdateRefused, Reset, TypeOK
<1> QED BY <1>1, <1>3, <1>4, <1>5 DEF Base, TypeOK, Fresh, Added, K

\* What an evaluation follows, on either path.
LEMMA UsedGain ==
  ASSUME TypeOK, Added
  PROVE  /\ path = "split" => Used = config
         /\ Used.fields \in {config.fields, bound.fields}
         /\ path = "kernel" => Used.fields = bound.fields
         /\ path = "kernel" =>
              Used.gain = IF K.add.kernel.constants = "live" THEN config.gain ELSE bound.gain
<1>1. config \in Configs(K) /\ bound \in Configs(K) /\ path \in {"kernel", "split"}
  BY DEF TypeOK
<1>2. bound = [gain |-> bound.gain, fields |-> bound.fields]
  BY <1>1 DEF Configs
<1>3. PICK g : g = IF K.add.kernel.constants = "live" THEN config.gain ELSE bound.gain
  OBVIOUS
<1>4. path = "kernel" => Used = [bound EXCEPT !.gain = g]
  BY <1>3 DEF Used
<1>5. [bound EXCEPT !.gain = g].gain = g /\ [bound EXCEPT !.gain = g].fields = bound.fields
  BY <1>2
<1>6. path = "split" => Used = config
  BY DEF Used
<1> QED BY <1>1, <1>3, <1>4, <1>5, <1>6

\* It has a field, or an index of none, for each port of the kind.
LEMMA UsedFields ==
  ASSUME TypeOK, Added
  PROVE  Used.fields \in [K.ports -> Index]
BY UsedGain DEF TypeOK, Configs

\* The parity of the moves of a memory stays one bit.
LEMMA MovedType ==
  ASSUME TypeOK, NEW same_dt
  PROVE  Moved(same_dt) \in [Memories -> 0..1]
<1>1. \A m \in Memories : memory[m] \in 0..1
  BY DEF TypeOK
<1>2. \A m \in Memories : 1 - memory[m] \in 0..1
  BY <1>1
<1>3. ASSUME NEW m \in Memories
      PROVE  (CASE m \notin Moves(same_dt) -> memory[m]
                [] m = "samples" \/ (m = "history" /\ Resizes) -> 1
                [] OTHER -> 1 - memory[m]) \in 0..1
  BY <1>1, <1>2
<1> QED BY <1>3 DEF Moved

\* The buffers of a history are readied for a field.
LEMMA ExtentType ==
  ASSUME TypeOK, Added, Evaluates, Resizes
  PROVE  Extent \in Nat
<1>1. kind \in DOMAIN Kinds /\ WellFormed(K) /\ BuffersItsField(K)
  BY WellFormedKind, LibraryAssumption DEF TypeOK, Added, K
<1>2. /\ HistoryPort(K) \in K.add.reads \cup K.add.writes
      /\ K.step.idle # "early" /\ K.add.kernel.constants = "live"
  BY <1>1 DEF BuffersItsField, Resizes
<1>3. Missing \notin Bound(Used, Required(K))
  BY <1>2 DEF Evaluates, Compiled, Idle, Fit
<1>4. HistoryPort(K) \in Required(K) /\ HistoryPort(K) \in K.ports
  BY <1>1, <1>2 DEF Required, WellFormed
<1>5. Used.fields \in [K.ports -> Index]
  BY UsedFields
<1>6. PICK f \in Fields : f = Used.fields[HistoryPort(K)]
  BY <1>3, <1>4, <1>5 DEF Bound, Index
<1>7. Size[f] \in Nat
  BY <1>6, LibraryAssumption
<1> QED BY <1>6, <1>7 DEF Extent, Entries

\* Readying them keeps their sizes natural numbers.
LEMMA PreparesTypes ==
  ASSUME TypeOK, Added, Evaluates, NEW taken \in Nat, NEW same_dt, Prepares(taken, same_dt)
  PROVE  capacity' \in Nat /\ snapshot' \in Nat
<1>1. Resizes => Extent \in Nat
  BY ExtentType
<1>2. CASE Resizes /\ ~Reuses(same_dt)
  <2>1. capacity' = Extent /\ snapshot' \in {0, taken}
    BY <1>2 DEF Prepares
  <2> QED BY <1>1, <1>2, <2>1
<1>3. CASE ~(Resizes /\ ~Reuses(same_dt))
  BY <1>3 DEF Prepares, TypeOK
<1> QED BY <1>2, <1>3

\* An evaluation moves memory, fills caches and records faults.
LEMMA EvaluateBase ==
  ASSUME Base, NEW row_fails \in BOOLEAN, NEW same_dt \in BOOLEAN,
         Evaluate(row_fails, same_dt)
  PROVE  Base'
<1>1. Added /\ TypeOK
  BY DEF Evaluate, Base
<1>2. UNCHANGED <<kind, path, config, bound, planned, stale, registered, shared>>
  BY DEF Evaluate, operator, registration
<1>3. memory' \in [Memories -> 0..1]
  BY <1>1, MovedType DEF Evaluate
<1>4. cached' \in BOOLEAN
  BY <1>1 DEF Evaluate, Caches, TypeOK
<1>5. faults' \subseteq {"nan", "twice", "overrun", "outdated", "freed"}
  BY <1>1 DEF Evaluate, Faults, TypeOK
<1>6. capacity' \in Nat /\ snapshot' \in Nat
  BY <1>1, PreparesTypes DEF Evaluate, TypeOK
<1> QED BY <1>1, <1>2, <1>3, <1>4, <1>5, <1>6 DEF Base, TypeOK, Fresh, Added, K

\* An evaluation in drift mode does the same and records none but of samples.
LEMMA DriftBase ==
  ASSUME Base, NEW same_dt \in BOOLEAN, DriftEvaluate(same_dt)
  PROVE  Base'
<1>1. Added /\ TypeOK
  BY DEF DriftEvaluate, Base
<1>2. UNCHANGED <<kind, path, config, bound, planned, stale, registered, shared>>
  BY DEF DriftEvaluate, operator, registration
<1>3. memory' \in [Memories -> 0..1]
  <2>1. \A m \in Memories : memory[m] \in 0..1 /\ Moved(same_dt)[m] \in 0..1
    BY <1>1, MovedType DEF TypeOK
  <2> QED BY <2>1 DEF DriftEvaluate
<1>4. cached' \in BOOLEAN
  BY <1>1 DEF DriftEvaluate, Caches, TypeOK
<1>5. faults' \subseteq {"nan", "twice", "overrun", "outdated", "freed"}
  BY <1>1 DEF DriftEvaluate, TypeOK
<1>6. Saved \in Nat
  BY <1>1 DEF Saved, TypeOK
<1>7. capacity' \in Nat /\ snapshot' \in Nat
  BY <1>1, <1>6, PreparesTypes DEF DriftEvaluate
<1> QED BY <1>1, <1>2, <1>3, <1>4, <1>5, <1>7 DEF Base, TypeOK, Fresh, Added, K

\* Every step preserves both.
LEMMA BaseNext == Base /\ [Next]_vars => Base'
<1> SUFFICES ASSUME Base, [Next]_vars PROVE Base'
  OBVIOUS
<1>1. ASSUME PreparePlan PROVE Base'
  BY <1>1 DEF PreparePlan, operator, history, values, registration, Base, TypeOK, Fresh,
              Added, K
<1>2. ASSUME EvaluateFails PROVE Base'
  BY <1>2 DEF EvaluateFails, operator, history, registration, Base, TypeOK, Fresh, Added, K
<1>3. ASSUME Destroy PROVE Base'
  <2>1. Still \in [Memories -> 0..1]
    BY DEF Still
  <2> QED BY <1>3, <2>1 DEF Destroy, Base, TypeOK, Fresh, Added
<1>4. ASSUME OrphanEvaluates PROVE Base'
  <2>1. /\ UNCHANGED <<kind, path, config, bound, planned, memory, capacity, snapshot>>
        /\ UNCHANGED <<cached, stale, cache, registered, shared>>
        /\ ~Added /\ faults' = faults \cup {"freed"}
    BY <1>4 DEF OrphanEvaluates, operator, history, values, registration
  <2> QED BY <2>1 DEF Base, TypeOK, Fresh, Added
<1>5. ASSUME AcceptStep PROVE Base'
  <2>1. memory' \in [Memories -> 0..1]
    BY <1>5 DEF AcceptStep, Reset, Base, TypeOK
  <2>2. /\ UNCHANGED <<kind, path, config, bound, planned, capacity, snapshot>>
        /\ UNCHANGED <<cached, stale, cache, faults, registered, shared>> /\ Added
    BY <1>5 DEF AcceptStep, operator, history, values, registration
  <2> QED BY <2>1, <2>2 DEF Base, TypeOK, Fresh, Added, K
<1>6. ASSUME UNCHANGED vars PROVE Base'
  BY <1>6 DEF vars, operator, history, values, registration, Base, TypeOK, Fresh, Added, K
<1> QED BY <1>1, <1>2, <1>3, <1>4, <1>5, <1>6, AddBase, AddFailsBase, UpdateBase, RefusedBase,
           EvaluateBase, DriftBase DEF Next, DriftEvaluates

\* The operator of a context is typed, and one that has not been added has no past:
\* the destruction of the context clears what adds leave alone.
LEMMA BaseInvariant == Spec => []Base
BY BaseInit, BaseNext, PTL DEF Spec
-------------------------------------------------------------------------------
\* The steps that leave alone the operator and its derived values, and record no fault
\* but that of freed blocks.
Quiet == /\ UNCHANGED <<kind, path, config, bound, stale>>
         /\ faults' \subseteq faults \cup {"freed"}

\* What a step can be, for an invariant about those.
LEMMA StepCases ==
  ASSUME [Next]_vars
  PROVE  \/ \E k \in DOMAIN Kinds, p \in {"kernel", "split"} :
              \E c \in Configs(Kinds[k]) : AddOperator(k, c, p)
         \/ \E c \in Offers, reshaped \in BOOLEAN : UpdateOperator(c, reshaped)
         \/ \E c \in Offers : UpdateRefused(c)
         \/ \E row_fails, same_dt \in BOOLEAN : Evaluate(row_fails, same_dt)
         \/ Quiet
         \/ ~Added'
<1>1. ASSUME NEW k \in DOMAIN Kinds, NEW n \in 1..Kinds[k].add.substeps, AddFails(k, n)
      PROVE  Quiet
  BY <1>1 DEF AddFails, operator, values, Quiet
<1>2. PreparePlan => Quiet
  BY DEF PreparePlan, operator, values, Quiet
<1>3. EvaluateFails => Quiet
  BY DEF EvaluateFails, operator, Quiet
<1>4. DriftEvaluates => Quiet
  BY DEF DriftEvaluates, DriftEvaluate, operator, Quiet
<1>5. Destroy => ~Added'
  BY DEF Destroy, Added
<1>6. UNCHANGED vars => Quiet
  BY DEF vars, operator, values, Quiet
<1>7. OrphanEvaluates \/ AcceptStep => Quiet
  BY DEF OrphanEvaluates, AcceptStep, operator, values, Quiet
<1> QED BY <1>1, <1>2, <1>3, <1>4, <1>5, <1>6, <1>7 DEF Next

\* What an add leaves behind.
LEMMA AddOutcome ==
  ASSUME Base, NEW k \in DOMAIN Kinds, NEW p \in {"kernel", "split"},
         NEW c \in Configs(Kinds[k]), AddOperator(k, c, p)
  PROVE  /\ kind' = k /\ path' = p /\ Added' /\ stale' = {} /\ faults' = {}
         /\ cache' = EmptyCache
         /\ config'.gain = Kinds[k].normalize["set"][c.gain]
         /\ config'.fields = bound'.fields
         /\ bound'.gain \in {config'.gain, "set"}
         /\ p = "kernel" /\ Kinds[k].add.kernel.constants # "live" =>
              bound'.gain = config'.gain
         /\ Fit(config', Required(Kinds[k]), Kinds[k].add.needs)
         /\ cached' = (Kinds[k].memory.derives = "eager")
<1> DEFINE g == Kinds[k].normalize["set"][c.gain]
           new == [c EXCEPT !.gain = g]
<1>1. /\ kind' = k /\ path' = p /\ config' = new
      /\ bound' = IF p = "kernel" /\ Kinds[k].add.kernel.constants # "live"
                    THEN new ELSE [new EXCEPT !.gain = "set"]
      /\ Fit(new, Required(Kinds[k]), Kinds[k].add.needs)
      /\ cached' = (Kinds[k].memory.derives = "eager")
      /\ UNCHANGED <<stale, cache>> /\ faults' = {} /\ ~Added
  BY DEF AddOperator
<1>2. c = [gain |-> c.gain, fields |-> c.fields]
  BY DEF Configs
<1>3. new.gain = g /\ new.fields = c.fields
  BY <1>2
<1>4. [new EXCEPT !.gain = "set"].gain = "set" /\ [new EXCEPT !.gain = "set"].fields = c.fields
  BY <1>2
<1>5. Added'
  BY <1>1, LibraryAssumption DEF Added
<1>6. stale' = {} /\ faults' = {} /\ cache' = EmptyCache
  BY <1>1 DEF Base, Fresh
<1> HIDE DEF new, g
<1> QED BY <1>1, <1>3, <1>4, <1>5, <1>6 DEF g
-------------------------------------------------------------------------------
\* The normalizers of the kind let through no parameter that is not finite: not in an
\* add, and not in an update of an operator that has none.
Sanitizes(k) == /\ \A new \in Gains : k.normalize["set"][new] # "nan"
                /\ \A old \in {"zero", "set"}, new \in Gains : k.renormalize[old][new] # "nan"

\* Then neither the configuration nor a kernel ever holds one.
FiniteInv == Added /\ Sanitizes(K) =>
               config.gain # "nan" /\ bound.gain # "nan" /\ "nan" \notin faults

\* Every step preserves it: an update normalizes with the gain that is stored.
LEMMA FiniteNext == Base /\ FiniteInv /\ [Next]_vars => FiniteInv'
<1> SUFFICES ASSUME Base, FiniteInv, [Next]_vars, Added', Sanitizes(K)'
             PROVE  (config.gain # "nan" /\ bound.gain # "nan" /\ "nan" \notin faults)'
  BY DEF FiniteInv
<1>1. ASSUME NEW k \in DOMAIN Kinds, NEW p \in {"kernel", "split"},
             NEW c \in Configs(Kinds[k]), AddOperator(k, c, p)
      PROVE  (config.gain # "nan" /\ bound.gain # "nan" /\ "nan" \notin faults)'
  <2>1. Sanitizes(Kinds[k]) /\ c.gain \in Gains
    BY <1>1, AddOutcome DEF K, Configs
  <2> QED BY <1>1, <2>1, AddOutcome DEF Sanitizes
<1>2. ASSUME NEW c \in Offers, Added, Sanitizes(K), config' \in {config, Renewed(c)},
             bound'.gain \in {bound.gain, Renewed(c).gain}, faults' = faults
      PROVE  (config.gain # "nan" /\ bound.gain # "nan" /\ "nan" \notin faults)'
  <2>1. config.gain # "nan" /\ bound.gain # "nan" /\ "nan" \notin faults
    BY <1>2 DEF FiniteInv
  <2>2. config.gain \in {"zero", "set"} /\ c.gain \in Gains
    BY <1>2, <2>1, RenewedConfig DEF Base, TypeOK, Configs, Gains
  <2>3. Renewed(c).gain # "nan"
    BY <1>2, <2>2 DEF Sanitizes, Renewed
  <2> QED BY <1>2, <2>1, <2>3
<1>3. ASSUME NEW c \in Offers, NEW reshaped \in BOOLEAN, UpdateOperator(c, reshaped)
      PROVE  (config.gain # "nan" /\ bound.gain # "nan" /\ "nan" \notin faults)'
  <2>1. Added /\ Sanitizes(K) /\ faults' = faults /\ config' = Renewed(c)
    BY <1>3 DEF UpdateOperator, K, Assign
  <2>2. bound = [gain |-> bound.gain, fields |-> bound.fields]
    BY <2>1 DEF Base, TypeOK, Configs
  <2>3. PICK g : g = Renewed(c).gain
    OBVIOUS
  <2>4. bound' \in {bound, [bound EXCEPT !.gain = g]}
    BY <1>3, <2>3 DEF UpdateOperator
  <2>5. bound'.gain \in {bound.gain, g}
    BY <2>2, <2>4
  <2> QED BY <1>2, <2>1, <2>3, <2>5
<1>4. ASSUME NEW c \in Offers, UpdateRefused(c)
      PROVE  (config.gain # "nan" /\ bound.gain # "nan" /\ "nan" \notin faults)'
  <2>1. Added /\ Sanitizes(K) /\ faults' = faults /\ bound' = bound
        /\ config' \in {config, Renewed(c)}
    BY <1>4 DEF UpdateRefused, K, Assign
  <2> QED BY <1>2, <2>1
<1>5. ASSUME NEW row_fails \in BOOLEAN, NEW same_dt \in BOOLEAN,
             Evaluate(row_fails, same_dt)
      PROVE  (config.gain # "nan" /\ bound.gain # "nan" /\ "nan" \notin faults)'
  <2>1. Added /\ Sanitizes(K) /\ UNCHANGED <<config, bound>>
        /\ faults' = faults \cup Faults(row_fails)
    BY <1>5 DEF Evaluate, operator, K
  <2>2. config.gain # "nan" /\ bound.gain # "nan" /\ "nan" \notin faults
    BY <2>1 DEF FiniteInv
  <2>3. Used.gain # "nan"
    BY <2>1, <2>2, UsedGain DEF Base, TypeOK
  <2>4. "nan" \notin Faults(row_fails)
    BY <2>3 DEF Faults
  <2> QED BY <2>1, <2>2, <2>4
<1>6. ASSUME Quiet
      PROVE  (config.gain # "nan" /\ bound.gain # "nan" /\ "nan" \notin faults)'
  BY <1>6 DEF Quiet, FiniteInv, Added, K
<1> QED BY <1>1, <1>3, <1>4, <1>5, <1>6, StepCases

\* So no parameter that is not finite reaches a field where the normalizers do their work.
LEMMA FiniteInvariant == Spec => []FiniteInv
<1>1. Init => FiniteInv
  BY DEF Init, FiniteInv, Added
<1> QED BY <1>1, FiniteNext, BaseInvariant, PTL DEF Spec
-------------------------------------------------------------------------------
\* An update of the kind that fails has not assigned the configuration.
AssignsLate(k) == k.update.alloc # "after" /\ k.update.order # "after"

\* A refused update of such a kind changes nothing.
LEMMA RefusalKeeps ==
  ASSUME NEW c, UpdateRefused(c), AssignsLate(K)
  PROVE  UNCHANGED <<config, cached, stale, cache>>
BY DEF UpdateRefused, AssignsBeforeFailing, AssignsLate, values

\* Every update of the kind that assigns a configuration renews the symbol.
RenewsSymbol(k) == /\ "symbol" \in k.update.renews
                   /\ AssignsLate(k) \/ "symbol" \in k.update.early

\* Then the symbol is that of the configuration.
SymbolInv == Added /\ RenewsSymbol(K) => "symbol" \notin stale

\* Every step preserves it, refused updates too.
LEMMA SymbolNext == Base /\ SymbolInv /\ [Next]_vars => SymbolInv'
<1> SUFFICES ASSUME Base, SymbolInv, [Next]_vars, Added', RenewsSymbol(K)'
             PROVE  "symbol" \notin stale'
  BY DEF SymbolInv
<1>1. ASSUME NEW k \in DOMAIN Kinds, NEW p \in {"kernel", "split"},
             NEW c \in Configs(Kinds[k]), AddOperator(k, c, p)
      PROVE  "symbol" \notin stale'
  BY <1>1, AddOutcome
<1>2. ASSUME NEW c \in Offers, NEW reshaped \in BOOLEAN, UpdateOperator(c, reshaped)
      PROVE  "symbol" \notin stale'
  <2>1. "symbol" \in K.update.renews /\ Assign(Renewed(c), K.update.renews)
    BY <1>2 DEF UpdateOperator, RenewsSymbol, K
  <2> QED BY <2>1 DEF Assign
<1>3. ASSUME NEW c \in Offers, UpdateRefused(c)
      PROVE  "symbol" \notin stale'
  <2>1. RenewsSymbol(K) /\ "symbol" \notin stale
    BY <1>3 DEF UpdateRefused, SymbolInv, K
  <2>2. CASE AssignsLate(K)
    BY <1>3, <2>1, <2>2, RefusalKeeps
  <2>3. CASE "symbol" \in K.update.early
    BY <1>3, <2>1, <2>3 DEF UpdateRefused, Assign, values
  <2> QED BY <2>1, <2>2, <2>3 DEF RenewsSymbol
<1>4. ASSUME NEW row_fails \in BOOLEAN, NEW same_dt \in BOOLEAN,
             Evaluate(row_fails, same_dt)
      PROVE  "symbol" \notin stale'
  BY <1>4 DEF Evaluate, operator, SymbolInv, K
<1>5. ASSUME Quiet PROVE "symbol" \notin stale'
  BY <1>5 DEF Quiet, SymbolInv, Added, K
<1> QED BY <1>1, <1>2, <1>3, <1>4, <1>5, StepCases

\* So it holds always.
LEMMA SymbolInvariant == Spec => []SymbolInv
<1>1. Init => SymbolInv
  BY DEF Init, SymbolInv, Added
<1> QED BY <1>1, SymbolNext, BaseInvariant, PTL DEF Spec
-------------------------------------------------------------------------------
\* What a step of the kind demands of its fields its add checks, and so does every
\* update that can change them.
ChecksFields(k) ==
  /\ k.step.needs \subseteq k.add.needs
  /\ \/ k.update.assigns \in {"pinned", "same"} /\ k.update.order # "after"
     \/ k.update.order = "before" /\ k.step.needs \subseteq k.update.needs

\* A demand is about fields only.
LEMMA MeetsFields ==
  ASSUME NEW c, NEW d, NEW P, NEW n \in Demands, c.fields = d.fields, Meets(n, P, c)
  PROVE  Meets(n, P, d)
<1>1. PICK F : F = Bound(c, P) \ {Missing} /\ F = Bound(d, P) \ {Missing}
  BY DEF Bound
<1>2. CASE n = "size"
  BY <1>1, <1>2 DEF Meets
<1>3. CASE n = "storage"
  BY <1>1, <1>3 DEF Meets
<1>4. CASE n = "wide"
  BY <1>1, <1>4 DEF Meets
<1>5. CASE n = "apart"
  BY <1>1, <1>5 DEF Meets
<1>6. CASE n = "planar"
  BY <1>1, <1>6 DEF Meets
<1>7. CASE n = "surface"
  BY <1>1, <1>7 DEF Meets
<1>8. CASE n = "real"
  BY <1>1, <1>8 DEF Meets
<1>9. CASE n = "complex"
  BY <1>1, <1>9 DEF Meets
<1> QED BY <1>2, <1>3, <1>4, <1>5, <1>6, <1>7, <1>8, <1>9 DEF Demands

\* So is a fit, and fewer demands are met more easily.
LEMMA FitFields ==
  ASSUME NEW c, NEW d, NEW P, NEW N, NEW M \in NeedSets,
         c.fields = d.fields, Fit(c, P, M), N \subseteq M
  PROVE  Fit(d, P, N)
<1>1. Bound(c, P) = Bound(d, P)
  BY DEF Bound
<1>2. ASSUME NEW n \in N PROVE Meets(n[1], n[2], d)
  BY <1>2, MeetsFields DEF Fit, NeedSets
<1> QED BY <1>1, <1>2 DEF Fit

\* The fields of c fit the step of the kind k.
Serves(c, k) == Fit(c, Required(k), k.step.needs)

\* Then the fields of the configuration, and those of the registration, fit the step.
FitInv == \A k \in DOMAIN Kinds : \A c, b :
            kind = k /\ config = c /\ bound = b /\ ChecksFields(Kinds[k]) =>
              Serves(c, Kinds[k]) /\ Serves(b, Kinds[k])

\* Every step preserves it: an update that changes the fields has checked them.
LEMMA FitNext == Base /\ FitInv /\ [Next]_vars => FitInv'
<1> SUFFICES ASSUME Base, FitInv, [Next]_vars, NEW k \in DOMAIN Kinds, NEW a, NEW b,
                    kind' = k, config' = a, bound' = b, ChecksFields(Kinds[k])
             PROVE  Serves(a, Kinds[k]) /\ Serves(b, Kinds[k])
  BY DEF FitInv
<1> DEFINE L == Kinds[k]
<1>0. WellFormed(L) /\ Added'
  BY WellFormedKind, LibraryAssumption DEF Added
<1>1. ASSUME NEW h \in DOMAIN Kinds, NEW p \in {"kernel", "split"},
             NEW c \in Configs(Kinds[h]), AddOperator(h, c, p)
      PROVE  Serves(a, L) /\ Serves(b, L)
  <2>1. h = k /\ a.fields = b.fields /\ Fit(a, Required(L), L.add.needs)
    BY <1>1, AddOutcome
  <2> QED BY <1>0, <2>1, FitFields DEF ChecksFields, Serves, WellFormed
<1>2. ASSUME kind = k PROVE Serves(config, L) /\ Serves(bound, L) /\ Added /\ K = L
  BY <1>0, <1>2 DEF FitInv, Added, K
<1>3. ASSUME NEW c \in Offers, kind = k, Acceptable(c)
      PROVE  Serves(Renewed(c), L)
  <2>1. CASE L.update.assigns \in {"pinned", "same"}
    <3>1. Renewed(c).fields = config.fields
      BY <1>2, <1>3, <2>1 DEF Renewed, Acceptable
    <3> QED BY <1>0, <1>2, <1>3, <3>1, FitFields DEF Serves, WellFormed
  <2>2. CASE L.update.order = "before" /\ L.step.needs \subseteq L.update.needs
    <3>1. Fit(Renewed(c), Required(L), L.update.needs)
      BY <1>2, <1>3, <2>2 DEF Acceptable
    <3> QED BY <1>0, <2>2, <3>1, FitFields DEF Serves, WellFormed
  <2> QED BY <2>1, <2>2 DEF ChecksFields
<1>4. ASSUME NEW c \in Offers, NEW reshaped \in BOOLEAN, UpdateOperator(c, reshaped)
      PROVE  Serves(a, L) /\ Serves(b, L)
  <2>1. kind = k /\ Acceptable(c) /\ a = Renewed(c)
    BY <1>4 DEF UpdateOperator, Assign
  <2>2. bound = [gain |-> bound.gain, fields |-> bound.fields]
    BY <1>2, <2>1 DEF Base, TypeOK, Configs
  <2>3. PICK g : g = Renewed(c).gain
    OBVIOUS
  <2>4. b \in {bound, [bound EXCEPT !.gain = g]}
    BY <1>4, <2>3 DEF UpdateOperator
  <2>5. b.fields = bound.fields
    BY <2>2, <2>4
  <2>6. Serves(b, L)
    BY <1>0, <1>2, <2>1, <2>5, FitFields DEF Serves, WellFormed
  <2> QED BY <1>3, <2>1, <2>6
<1>5. ASSUME NEW c \in Offers, UpdateRefused(c)
      PROVE  Serves(a, L) /\ Serves(b, L)
  <2>1. kind = k /\ b = bound
    BY <1>5 DEF UpdateRefused
  <2>2. CASE AssignsBeforeFailing(c)
    <3>1. a = Renewed(c) /\ (Acceptable(c) \/ L.update.order = "after")
      BY <1>2, <1>5, <2>1, <2>2 DEF UpdateRefused, Assign, AssignsBeforeFailing
    <3> QED BY <1>2, <1>3, <2>1, <3>1 DEF ChecksFields
  <2>3. CASE ~AssignsBeforeFailing(c)
    BY <1>2, <1>5, <2>1, <2>3 DEF UpdateRefused
  <2> QED BY <2>2, <2>3
<1>6. ASSUME NEW row_fails \in BOOLEAN, NEW same_dt \in BOOLEAN,
             Evaluate(row_fails, same_dt)
      PROVE  Serves(a, L) /\ Serves(b, L)
  BY <1>2, <1>6 DEF Evaluate, operator
<1>7. ASSUME Quiet
      PROVE  Serves(a, L) /\ Serves(b, L)
  BY <1>2, <1>7 DEF Quiet
<1> QED BY <1>0, <1>1, <1>4, <1>5, <1>6, <1>7, StepCases

\* So it holds always.
LEMMA FitInvariant == Spec => []FitInv
<1>1. Init => FitInv
  BY LibraryAssumption DEF Init, FitInv
<1> QED BY <1>1, FitNext, BaseInvariant, PTL DEF Spec

\* An evaluation follows the one or the other.
LEMMA FitEvaluates ==
  ASSUME Base, FitInv, Added, ChecksFields(K)
  PROVE  Evaluates
<1>1. Used.fields \in {config.fields, bound.fields}
  BY UsedGain DEF Base
<1>2. kind \in DOMAIN Kinds /\ WellFormed(K)
  BY WellFormedKind DEF Base, TypeOK, Added, K
<1>3. Fit(Used, Required(K), K.step.needs)
  BY <1>1, <1>2, FitFields DEF FitInv, Serves, WellFormed, K
<1> QED BY <1>3 DEF Evaluates
-------------------------------------------------------------------------------
\* The gain a kernel of the kind uses is that of the latest update.
FollowsUpdates(k) == \/ k.add.kernel.constants = "live"
                     \/ k.add.kernel.constants = "patched" /\ AssignsLate(k)

\* The expression of a kernel that updates patch holds the gain of the configuration.
PatchedInv == Added /\ FollowsUpdates(K) /\ path = "kernel" /\ K.add.kernel.constants # "live"
                => bound.gain = config.gain

\* Every step preserves it: a successful update patches the expression, and a refused
\* one leaves the configuration.
LEMMA PatchedNext == Base /\ PatchedInv /\ [Next]_vars => PatchedInv'
<1> SUFFICES ASSUME Base, PatchedInv, [Next]_vars, Added', FollowsUpdates(K)',
                    path' = "kernel", (K.add.kernel.constants # "live")'
             PROVE  bound'.gain = config'.gain
  BY DEF PatchedInv
<1>1. ASSUME NEW k \in DOMAIN Kinds, NEW p \in {"kernel", "split"},
             NEW c \in Configs(Kinds[k]), AddOperator(k, c, p)
      PROVE  bound'.gain = config'.gain
  BY <1>1, AddOutcome DEF K
<1>2. ASSUME UNCHANGED <<kind, path>>
      PROVE  /\ Added /\ K.add.kernel.constants = "patched" /\ AssignsLate(K)
             /\ path = "kernel" /\ bound.gain = config.gain
  BY <1>2 DEF PatchedInv, FollowsUpdates, K, Added
<1>3. ASSUME NEW c \in Offers, NEW reshaped \in BOOLEAN, UpdateOperator(c, reshaped)
      PROVE  bound'.gain = config'.gain
  <2>1. PICK g : g = Renewed(c).gain
    OBVIOUS
  <2>2. config' = Renewed(c) /\ bound' = [bound EXCEPT !.gain = g] /\ Added
    BY <1>2, <1>3, <2>1 DEF UpdateOperator, Assign
  <2>3. bound = [gain |-> bound.gain, fields |-> bound.fields]
    BY <2>2 DEF Base, TypeOK, Configs
  <2> QED BY <2>1, <2>2, <2>3
<1>4. ASSUME NEW c \in Offers, UpdateRefused(c)
      PROVE  bound'.gain = config'.gain
  BY <1>2, <1>4, RefusalKeeps DEF UpdateRefused
<1>5. ASSUME NEW row_fails \in BOOLEAN, NEW same_dt \in BOOLEAN,
             Evaluate(row_fails, same_dt)
      PROVE  bound'.gain = config'.gain
  BY <1>2, <1>5 DEF Evaluate, operator
<1>6. ASSUME Quiet PROVE bound'.gain = config'.gain
  BY <1>2, <1>6 DEF Quiet
<1> QED BY <1>1, <1>3, <1>4, <1>5, <1>6, StepCases

\* So it holds always.
LEMMA PatchedInvariant == Spec => []PatchedInv
<1>1. Init => PatchedInv
  BY DEF Init, PatchedInv, Added
<1> QED BY <1>1, PatchedNext, BaseInvariant, PTL DEF Spec

\* The gain in use is then that of the configuration, on either path.
LEMMA FollowsEffect ==
  ASSUME Base, PatchedInv, Added, FollowsUpdates(K)
  PROVE  Used.gain = config.gain
BY UsedGain DEF Base, TypeOK, PatchedInv
-------------------------------------------------------------------------------
\* The ports an evaluation of the kind writes, and those it reads, are declared.
DeclaresWrites(k) == k.step.writes \subseteq k.add.writes
DeclaresReads(k) == k.step.reads \subseteq k.add.reads

\* Then an operator that is where it was registered touches declared fields only.
LEMMA DeclaredTouches ==
  ASSUME Base, Added, config.fields = bound.fields
  PROVE  /\ DeclaresWrites(K) => Writes \subseteq DeclaredWrites
         /\ DeclaresReads(K) => Reads \subseteq DeclaredReads
<1>1. Used.fields = bound.fields
  BY UsedGain DEF Base
<1> QED BY <1>1 DEF DeclaresWrites, DeclaresReads, Writes, Reads, DeclaredWrites,
                   DeclaredReads, PortsWritten, PortsRead, Bound
-------------------------------------------------------------------------------
\* The memory that a step of the kind moves its hooks put back, but for samples.
PutsBack(k) == k.memory.moved \ {"samples"} \subseteq k.memory.saved \/ ~k.step.drifts

\* Then an evaluation in drift mode, in buffers of the right size, leaves it as it was:
\* what the hooks have saved is still there, and large enough, when they put it back.
LEMMA DriftPutsBack ==
  ASSUME Base, NEW same_dt \in BOOLEAN, DriftEvaluate(same_dt), PutsBack(K), ~Resizes,
         NEW m \in Memories \ {"samples"}
  PROVE  memory'[m] = memory[m]
<1>1. capacity' = capacity /\ snapshot' = Saved
  BY DEF DriftEvaluate, Prepares
<1>2. ~(snapshot' < capacity')
  BY <1>1 DEF Saved, Base, TypeOK
<1>3. Restored = K.memory.saved
  BY <1>2 DEF Restored
<1>4. m \in K.memory.saved \/ ~K.step.drifts \/ Moved(same_dt)[m] = memory[m]
  BY DEF PutsBack, Moved, Moves
<1> QED BY <1>3, <1>4 DEF DriftEvaluate
-------------------------------------------------------------------------------
\* The kinds with a static cache, and those that keep other derived values.
StaticKind(k) == k.memory.derives \in {"planes", "each plane"}
Derives(k) == k.memory.derives \in {"eager", "lazy"}

\* A kind with a static cache fills it for the field it declares, from the live
\* configuration.
OnField(k) == StaticKind(k) => /\ "field" \in Required(k)
                               /\ k.add.kernel.constants = "live"

\* The values of a static cache.
StaticCaches == [real : Nat, imag : Nat, layout : Nat \X Nat, valid : BOOLEAN,
                 current : SUBSET Planes]

\* The first plane of c has room for the layout c is valid for.
Roomy(c) == c \in StaticCaches /\ (c.valid => c.real >= Count(c.layout))

\* Growth makes room for a layout, takes none away and leaves the rest.
LEMMA GrownRoomy ==
  ASSUME NEW c \in StaticCaches, NEW layout \in Nat \X Nat, NEW n \in BOOLEAN
  PROVE  /\ Grown(c, layout, n) \in StaticCaches
         /\ Grown(c, layout, n).real >= Count(layout)
         /\ Grown(c, layout, n).real >= c.real
         /\ Grown(c, layout, n).layout = c.layout
         /\ Grown(c, layout, n).valid = c.valid
         /\ Grown(c, layout, n).current = c.current
<1>1. Count(layout) \in Nat
  BY DEF Count
<1>2. PICK r \in Nat : /\ r = IF c.real < Count(layout) THEN Count(layout) ELSE c.real
                       /\ r >= Count(layout) /\ r >= c.real
  BY <1>1 DEF StaticCaches
<1>3. PICK i \in Nat : i = IF n /\ c.imag = 0 THEN Count(layout) ELSE c.imag
  BY <1>1 DEF StaticCaches
<1>4. Grown(c, layout, n) = [c EXCEPT !.real = r, !.imag = i]
  BY <1>2, <1>3 DEF Grown, StaticCaches
<1> QED BY <1>2, <1>3, <1>4 DEF StaticCaches

\* sim_stimulus_static_cache_ensure keeps the room, and a cache whose planes belonged
\* to the configuration has those that were asked for.
LEMMA EnsuredRoomy ==
  ASSUME NEW c, Roomy(c), NEW layout \in Nat \X Nat, NEW n \in BOOLEAN
  PROVE  /\ Roomy(Ensured(c, layout, n))
         /\ (c.valid => Filled(n) \subseteq c.current) =>
              Filled(n) \subseteq Ensured(c, layout, n).current
<1>1. CASE Matches(c, layout, n)
  BY <1>1 DEF Ensured, Matches, Roomy
<1>2. CASE ~Matches(c, layout, n)
  <2>1. PICK g \in StaticCaches : g = Grown(c, layout, n) /\ g.real >= Count(layout)
    BY GrownRoomy DEF Roomy
  <2>2. PICK f \in SUBSET Planes : f = Filled(n)
    BY DEF Filled, Planes
  <2>3. PICK e : e = [g EXCEPT !.layout = layout, !.valid = TRUE, !.current = f]
    OBVIOUS
  <2>4. e \in StaticCaches /\ e.real = g.real /\ e.layout = layout /\ e.current = f
    BY <2>3 DEF StaticCaches
  <2>5. Ensured(c, layout, n) = e
    BY <1>2, <2>1, <2>2, <2>3 DEF Ensured
  <2> QED BY <2>1, <2>2, <2>5, <2>4 DEF Roomy
<1> QED BY <1>1, <1>2

\* A request that finds no memory leaves the cache valid or not, as it was.
LEMMA FailedRoomy ==
  ASSUME NEW c, Roomy(c), NEW layout \in Nat \X Nat, NEW n \in BOOLEAN
  PROVE  /\ Roomy(EnsureFailed(c, layout, n))
         /\ EnsureFailed(c, layout, n).valid = c.valid
         /\ EnsureFailed(c, layout, n).current = c.current
<1>1. CASE EnsureFailed(c, layout, n) = c
  BY <1>1
<1>2. CASE EnsureFailed(c, layout, n) = Grown(c, layout, FALSE)
  <2>1. PICK g \in StaticCaches : /\ g = Grown(c, layout, FALSE) /\ g.real >= c.real
                             /\ g.layout = c.layout /\ g.valid = c.valid /\ g.current = c.current
    BY GrownRoomy DEF Roomy
  <2>2. c.real \in Nat /\ g.real \in Nat /\ Count(c.layout) \in Nat
    BY DEF Roomy, StaticCaches, Count
  <2>3. ASSUME c.valid PROVE g.real >= Count(g.layout)
    <3>1. c.real >= Count(c.layout)
      BY <2>3 DEF Roomy
    <3>2. PICK x \in Nat, y \in Nat, z \in Nat :
            x = g.real /\ y = c.real /\ z = Count(c.layout)
      BY <2>2
    <3>3. x >= y /\ y >= z
      BY <2>1, <3>1, <3>2
    <3>4. x >= z
      BY <3>3
    <3> QED BY <2>1, <3>2, <3>4
  <2> QED BY <1>2, <2>1, <2>3 DEF Roomy
<1> QED BY <1>1, <1>2 DEF EnsureFailed

\* An invalidated cache promises nothing; the samples may also become those of another
\* configuration.
LEMMA InvalidatedRoomy ==
  ASSUME NEW c, Roomy(c)
  PROVE  /\ Roomy(Invalidated(c)) /\ Invalidated(c).valid = FALSE
         /\ Roomy([c EXCEPT !.current = {}])
BY DEF Roomy, StaticCaches, Invalidated, NoLayout, Count

\* An evaluation that fills the cache has a field to fill it for.
LEMMA TargetIsField ==
  ASSUME Base, Added, OnField(K), Evaluates, Static, Acts
  PROVE  Layout \in Nat \X Nat /\ Complete \in BOOLEAN /\ FirstNeed \in BOOLEAN
<1>1. "field" \in Required(K) /\ K.add.kernel.constants = "live"
  BY DEF OnField, StaticKind, Static
<1>2. ~Compiled /\ ~Idle("early")
  BY <1>1 DEF Compiled, Idle, Acts
<1>3. Missing \notin Bound(Used, Required(K))
  BY <1>2 DEF Evaluates, Fit
<1>4. kind \in DOMAIN Kinds /\ WellFormed(K)
  BY WellFormedKind DEF Base, TypeOK, Added, K
<1>5. "field" \in K.ports
  BY <1>1, <1>4 DEF WellFormed, Required
<1>6. Used.fields \in [K.ports -> Index]
  BY UsedGain DEF Base, TypeOK, Configs
<1>7. Target \in Fields
  BY <1>1, <1>3, <1>5, <1>6 DEF Target, Bound, Index
<1>8. Rank[Target] \in Nat /\ Size[Target] \in Nat /\ Complex[Target] \in BOOLEAN
  BY <1>7, LibraryAssumption
<1> QED BY <1>8 DEF Layout, Complete, FirstNeed

\* The cache of a kind that fills it for a declared field is such a cache.
RoomInv == Added /\ OnField(K) => Roomy(cache)

\* An update keeps the room, and invalidates the cache if it renews it.
LEMMA AssignCache ==
  ASSUME NEW c, NEW D, Assign(c, D), Roomy(cache), Added
  PROVE  /\ Roomy(cache')
         /\ Static /\ "cache" \in D => cache'.valid = FALSE
<1>1. PICK kept : /\ kept = IF c = config THEN cache ELSE [cache EXCEPT !.current = {}]
                  /\ Roomy(kept)
  BY InvalidatedRoomy
<1>2. cache' = IF Static /\ "cache" \in D THEN Invalidated(kept) ELSE kept
  BY <1>1 DEF Assign
<1>3. Roomy(Invalidated(kept)) /\ Invalidated(kept).valid = FALSE
  BY <1>1, InvalidatedRoomy
<1> QED BY <1>1, <1>2, <1>3

\* Every step preserves it, evaluations that find no memory too.
LEMMA RoomNext == Base /\ RoomInv /\ [Next]_vars => RoomInv'
<1> SUFFICES ASSUME Base, RoomInv, [Next]_vars, Added', OnField(K)', NEW c0, c0 = cache'
             PROVE  Roomy(c0)
  BY DEF RoomInv, Roomy, Count
<1>1. ASSUME NEW k \in DOMAIN Kinds, NEW p \in {"kernel", "split"},
             NEW c \in Configs(Kinds[k]), AddOperator(k, c, p)
      PROVE  Roomy(c0)
  <2>1. c0 = EmptyCache
    BY <1>1, AddOutcome
  <2> QED BY <2>1 DEF EmptyCache, NoLayout, Roomy, StaticCaches, Planes
<1>2. ASSUME UNCHANGED kind
      PROVE  Added /\ OnField(K) /\ Roomy(cache)
  BY <1>2 DEF RoomInv, Added, K
<1>3. ASSUME NEW c, UpdateRefused(c) \/ \E reshaped \in BOOLEAN : UpdateOperator(c, reshaped)
      PROVE  Roomy(c0)
  <2>1. UNCHANGED kind /\ (cache' = cache \/ \E d, D : Assign(d, D))
    BY <1>3 DEF UpdateOperator, UpdateRefused, values
  <2> QED BY <1>2, <2>1, AssignCache
<1>4. ASSUME Evaluates, UNCHANGED kind, c0 = Cache
      PROVE  Roomy(c0)
  <2>1. CASE Static /\ Acts
    <3>1. Layout \in Nat \X Nat /\ Complete \in BOOLEAN /\ FirstNeed \in BOOLEAN
      BY <1>2, <1>4, <2>1, TargetIsField
    <3>2. Roomy(Once)
      BY <1>2, <1>4, <3>1, EnsuredRoomy DEF Once
    <3>3. Roomy(Twice)
      BY <3>1, <3>2, EnsuredRoomy DEF Twice
    <3> QED BY <1>4, <2>1, <3>3 DEF Cache
  <2>2. CASE ~(Static /\ Acts)
    BY <1>2, <1>4, <2>2 DEF Cache
  <2> QED BY <2>1, <2>2
<1>5. ASSUME NEW row_fails \in BOOLEAN, NEW same_dt \in BOOLEAN,
             Evaluate(row_fails, same_dt)
      PROVE  Roomy(c0)
  BY <1>4, <1>5 DEF Evaluate, operator
<1>6. ASSUME NEW same_dt \in BOOLEAN, DriftEvaluate(same_dt)
      PROVE  Roomy(c0)
  BY <1>4, <1>6 DEF DriftEvaluate, operator
<1>7. ASSUME EvaluateFails
      PROVE  Roomy(c0)
  <2>1. Evaluates /\ UNCHANGED kind /\ Static /\ Acts /\ c0 = EnsureFailed(cache, Layout, Complete)
    BY <1>7 DEF EvaluateFails, operator
  <2>2. Layout \in Nat \X Nat /\ Complete \in BOOLEAN
    BY <1>2, <2>1, TargetIsField
  <2> QED BY <1>2, <2>1, <2>2, FailedRoomy
<1>8. ASSUME NEW k \in DOMAIN Kinds, NEW n \in 1..Kinds[k].add.substeps, AddFails(k, n)
      PROVE  FALSE
  BY <1>8 DEF AddFails, operator, Added
<1>9. ASSUME PreparePlan \/ AcceptStep \/ OrphanEvaluates \/ UNCHANGED vars
      PROVE  Roomy(c0)
  BY <1>2, <1>9 DEF PreparePlan, AcceptStep, OrphanEvaluates, vars, operator, values
<1>10. ~Destroy
  BY DEF Destroy, Added
<1> QED BY <1>1, <1>3, <1>5, <1>6, <1>7, <1>8, <1>9, <1>10 DEF Next, DriftEvaluates

\* So it holds always.
LEMMA RoomInvariant == Spec => []RoomInv
<1>1. Init => RoomInv
  BY DEF Init, RoomInv, Added
<1> QED BY <1>1, RoomNext, BaseInvariant, PTL DEF Spec
-------------------------------------------------------------------------------
\* The values that are kept for longer than an evaluation are renewed by every update
\* of the kind that assigns a configuration; or by those that succeed only, and one that
\* fails leaves a configuration that its step refuses.
RenewsCache(k) ==
  /\ StaticKind(k) => "cache" \in k.update.renews /\ AssignsLate(k)
  /\ Derives(k) => /\ "cache" \in k.update.renews
                   /\ \/ AssignsLate(k)
                      \/ "cache" \in k.update.early
                      \/ /\ k.update.alloc # "after" /\ k.update.assigns # "same"
                         /\ k.add.kernel = NoKernel
                         /\ k.update.needs \subseteq k.step.needs

\* The step of the kind k refuses the configuration c: an update that failed left it.
Refuses(k, c) == /\ Derives(k) /\ k.add.kernel = NoKernel
                 /\ k.update.needs \subseteq k.step.needs
                 /\ ~Fit(c, Required(k), k.update.needs)

\* Values of another configuration are kept only with a configuration that the step
\* refuses.
StaleInv == Added => \A k, c : K = k /\ config = c =>
                       /\ cached => Derives(k)
                       /\ path = "kernel" => k.add.kernel # NoKernel
                       /\ RenewsCache(k) /\ "cache" \in stale => Refuses(k, c)

\* Every step preserves it: the one update that fails after it has assigned, and leaves
\* the old values, has found fields that the step refuses as well.
LEMMA StaleNext == Base /\ StaleInv /\ [Next]_vars => StaleInv'
<1> SUFFICES ASSUME Base, StaleInv, [Next]_vars, Added', NEW k, k = K'
             PROVE  /\ cached' => Derives(k)
                    /\ path' = "kernel" => k.add.kernel # NoKernel
                    /\ \A c : config' = c /\ RenewsCache(k) /\ "cache" \in stale' => Refuses(k, c)
  BY DEF StaleInv
<1> DEFINE Safe == \A c : config' = c /\ RenewsCache(k) /\ "cache" \in stale' => Refuses(k, c)
<1>1. ASSUME NEW h \in DOMAIN Kinds, NEW p \in {"kernel", "split"},
             NEW c \in Configs(Kinds[h]), AddOperator(h, c, p)
      PROVE  /\ cached' => Derives(k)
             /\ path' = "kernel" => k.add.kernel # NoKernel
             /\ Safe
  <2>1. kind' = h /\ path' = p /\ stale' = {} /\ cached' = (Kinds[h].memory.derives = "eager")
    BY <1>1, AddOutcome
  <2>2. k = Kinds[h]
    BY <2>1 DEF K
  <2>3. p = "kernel" => k.add.kernel # NoKernel
    BY <1>1, <2>2 DEF AddOperator
  <2> QED BY <2>1, <2>2, <2>3 DEF Derives
<1>2. ASSUME UNCHANGED <<kind, path>>
      PROVE  /\ Added /\ K = k /\ (cached => Derives(k))
             /\ path' = "kernel" => k.add.kernel # NoKernel
             /\ RenewsCache(k) /\ "cache" \in stale => Refuses(k, config)
  <2>1. Added /\ K = k
    BY <1>2 DEF Added, K
  <2> QED BY <1>2, <2>1 DEF StaleInv
<1>3. ASSUME UNCHANGED <<kind, path, config, stale>>, cached' => cached \/ Derives(K)
      PROVE  (cached' => Derives(k)) /\ Safe
  BY <1>2, <1>3
<1>4. ASSUME NEW c, NEW D, Assign(c, D), UNCHANGED <<kind, path>>
      PROVE  /\ cached' => Derives(k)
             /\ "cache" \in D \/ ~Derives(k) => Safe
  <2>1. cached' => cached
    BY <1>4 DEF Assign
  <2>2. "cache" \in stale' => "cache" \notin D /\ ("cache" \in stale \/ cached)
    BY <1>4 DEF Assign
  <2> QED BY <1>2, <1>4, <2>1, <2>2 DEF Refuses
<1>5. ASSUME NEW c \in Offers, NEW reshaped \in BOOLEAN, UpdateOperator(c, reshaped)
      PROVE  (cached' => Derives(k)) /\ Safe
  <2>1. UNCHANGED <<kind, path>> /\ Assign(Renewed(c), k.update.renews)
    BY <1>2, <1>5 DEF UpdateOperator
  <2>2. RenewsCache(k) /\ Derives(k) => "cache" \in k.update.renews
    BY DEF RenewsCache
  <2> QED BY <1>4, <2>1, <2>2
<1>6. ASSUME NEW c \in Offers, UpdateRefused(c)
      PROVE  (cached' => Derives(k)) /\ Safe
  <2>1. UNCHANGED <<kind, path>> /\ K = k
    BY <1>2, <1>6 DEF UpdateRefused
  <2>2. CASE ~AssignsBeforeFailing(c)
    BY <1>3, <1>6, <2>1, <2>2 DEF UpdateRefused, values
  <2>3. CASE AssignsBeforeFailing(c)
    <3>1. Assign(Renewed(c), k.update.early) /\ config' = Renewed(c) /\ ~AssignsLate(k)
      BY <1>6, <2>1, <2>3 DEF UpdateRefused, AssignsBeforeFailing, AssignsLate, Assign
    <3>2. CASE "cache" \in k.update.early \/ ~Derives(k)
      BY <1>4, <2>1, <3>1, <3>2
    <3>3. CASE RenewsCache(k) /\ "cache" \notin k.update.early /\ Derives(k)
      <4>1. /\ k.update.alloc # "after" /\ k.update.assigns # "same"
            /\ k.add.kernel = NoKernel /\ k.update.needs \subseteq k.step.needs
        BY <3>1, <3>3 DEF RenewsCache
      <4>2. ~Acceptable(c)
        BY <2>1, <2>3, <4>1 DEF AssignsBeforeFailing
      <4>3. ~Fit(Renewed(c), Required(k), k.update.needs)
        BY <2>1, <4>1, <4>2 DEF Acceptable
      <4> QED BY <3>1, <3>3, <4>1, <4>3 DEF Refuses
    <3> QED BY <1>4, <2>1, <3>1, <3>2, <3>3
  <2> QED BY <2>2, <2>3
<1>7. ASSUME NEW row_fails \in BOOLEAN, NEW same_dt \in BOOLEAN,
             Evaluate(row_fails, same_dt)
      PROVE  (cached' => Derives(k)) /\ Safe
  BY <1>3, <1>7 DEF Evaluate, operator, Caches, Derives
<1>8. ASSUME NEW same_dt \in BOOLEAN, DriftEvaluate(same_dt)
      PROVE  (cached' => Derives(k)) /\ Safe
  BY <1>3, <1>8 DEF DriftEvaluate, operator, Caches, Derives
<1>9. ASSUME EvaluateFails \/ PreparePlan \/ AcceptStep \/ OrphanEvaluates \/ UNCHANGED vars
      PROVE  (cached' => Derives(k)) /\ Safe
  BY <1>3, <1>9 DEF EvaluateFails, PreparePlan, AcceptStep, OrphanEvaluates, vars, operator,
                    values
<1>10. ASSUME NEW h \in DOMAIN Kinds, NEW n \in 1..Kinds[h].add.substeps, AddFails(h, n)
       PROVE  FALSE
  BY <1>10 DEF AddFails, operator, Added
<1>11. ~Destroy
  BY DEF Destroy, Added
<1>12. \/ UNCHANGED <<kind, path>>
       \/ \E h \in DOMAIN Kinds, p \in {"kernel", "split"} :
            \E c \in Configs(Kinds[h]) : AddOperator(h, c, p)
  BY <1>10, <1>11 DEF Next, UpdateOperator, UpdateRefused, Evaluate, DriftEvaluates,
                      DriftEvaluate, EvaluateFails, PreparePlan, AcceptStep, OrphanEvaluates,
                      vars, operator
<1> HIDE DEF Safe
<1>13. (cached' => Derives(k)) /\ Safe
  BY <1>1, <1>5, <1>6, <1>7, <1>8, <1>9, <1>10, <1>11 DEF Next, DriftEvaluates
<1>14. path' = "kernel" => k.add.kernel # NoKernel
  BY <1>1, <1>2, <1>12
<1> QED BY <1>13, <1>14 DEF Safe

\* So it holds always.
LEMMA StaleInvariant == Spec => []StaleInv
<1>1. Init => StaleInv
  BY DEF Init, StaleInv, Added
<1> QED BY <1>1, StaleNext, BaseInvariant, PTL DEF Spec
-------------------------------------------------------------------------------
\* A kernel of the kind k fills the planes one by one.
Piecewise(k, p) == p = "kernel" /\ k.memory.derives = "each plane"

\* Otherwise a valid static cache has the planes of the present configuration.
FilledInv == \A k, p, t, c :
               /\ Added /\ K = k /\ path = p /\ Target = t /\ cache = c
               /\ OnField(k) /\ RenewsCache(k) /\ StaticKind(k) /\ ~Piecewise(k, p) /\ c.valid
               => Filled(Complex[t]) \subseteq c.current

\* The requests of an evaluation leave the planes that it reads.
LEMMA TwiceFilled ==
  ASSUME Base, RoomInv, FilledInv, Added, OnField(K), RenewsCache(K), ~Piecewise(K, path),
         Evaluates, Static, Acts
  PROVE  Filled(Complete) \subseteq Twice.current
<1>1. Layout \in Nat \X Nat /\ Complete \in BOOLEAN /\ FirstNeed = Complete
  BY TargetIsField DEF FirstNeed, Piecewise
<1>2. Roomy(cache)
  BY DEF RoomInv
<1>3. cache.valid => Filled(Complete) \subseteq cache.current
  BY DEF FilledInv, Static, StaticKind, Complete
<1>4. Roomy(Once) /\ Filled(Complete) \subseteq Once.current
  BY <1>1, <1>2, <1>3, EnsuredRoomy DEF Once
<1> QED BY <1>1, <1>4, EnsuredRoomy DEF Twice

\* Every step preserves it: a field of another layout comes with another configuration,
\* whose update invalidates the cache.
LEMMA FilledNext == Base /\ RoomInv /\ FilledInv /\ [Next]_vars => FilledInv'
<1> SUFFICES ASSUME Base, RoomInv, FilledInv, [Next]_vars,
                    NEW k, NEW p, NEW t, NEW c,
                    Added', K' = k, path' = p, Target' = t, cache' = c,
                    OnField(k), RenewsCache(k), StaticKind(k), ~Piecewise(k, p), c.valid
             PROVE  Filled(Complex[t]) \subseteq c.current
  BY DEF FilledInv
<1>1. ASSUME NEW h \in DOMAIN Kinds, NEW q \in {"kernel", "split"},
             NEW d \in Configs(Kinds[h]), AddOperator(h, d, q)
      PROVE  FALSE
  BY <1>1, AddOutcome DEF EmptyCache
<1>2. ASSUME UNCHANGED <<kind, path>>
      PROVE  Added /\ K = k /\ path = p /\ Roomy(cache) /\ Static
  <2>1. Added /\ K = k /\ path = p
    BY <1>2 DEF Added, K
  <2> QED BY <2>1 DEF RoomInv, Static, StaticKind
<1>3. ASSUME UNCHANGED <<kind, path, config, bound>>
      PROVE  Target = t
  BY <1>3 DEF Target, Used, K
<1>4. ASSUME UNCHANGED <<kind, path, config, bound, cache>>
      PROVE  Filled(Complex[t]) \subseteq c.current
  BY <1>2, <1>3, <1>4 DEF FilledInv
<1>5. ASSUME NEW d \in Offers, NEW reshaped \in BOOLEAN, UpdateOperator(d, reshaped)
      PROVE  FALSE
  <2>1. UNCHANGED <<kind, path>> /\ Assign(Renewed(d), k.update.renews)
    BY <1>2, <1>5 DEF UpdateOperator
  <2>2. "cache" \in k.update.renews
    BY DEF RenewsCache
  <2> QED BY <1>2, <2>1, <2>2, AssignCache
<1>6. ASSUME NEW d \in Offers, UpdateRefused(d)
      PROVE  Filled(Complex[t]) \subseteq c.current
  <2>1. UNCHANGED <<kind, path, bound>>
    BY <1>6 DEF UpdateRefused
  <2>2. AssignsLate(K)
    BY <1>2, <2>1 DEF RenewsCache
  <2> QED BY <1>4, <1>6, <2>1, <2>2, RefusalKeeps
<1>7. ASSUME Evaluates, UNCHANGED <<kind, path, config, bound>>, cache' = Cache
      PROVE  Filled(Complex[t]) \subseteq c.current
  <2>1. CASE Acts
    <3>1. Filled(Complete) \subseteq Twice.current
      BY <1>2, <1>7, <2>1, TwiceFilled
    <3>2. c = Twice /\ Complete = Complex[t]
      BY <1>2, <1>3, <1>7, <2>1 DEF Cache, Complete
    <3> QED BY <3>1, <3>2
  <2>2. CASE ~Acts
    BY <1>4, <1>7, <2>2 DEF Cache
  <2> QED BY <2>1, <2>2
<1>8. ASSUME NEW row_fails \in BOOLEAN, NEW same_dt \in BOOLEAN,
             Evaluate(row_fails, same_dt)
      PROVE  Filled(Complex[t]) \subseteq c.current
  BY <1>7, <1>8 DEF Evaluate, operator
<1>9. ASSUME NEW same_dt \in BOOLEAN, DriftEvaluate(same_dt)
      PROVE  Filled(Complex[t]) \subseteq c.current
  BY <1>7, <1>9 DEF DriftEvaluate, operator
<1>10. ASSUME EvaluateFails
       PROVE  Filled(Complex[t]) \subseteq c.current
  <2>1. /\ Evaluates /\ Acts /\ UNCHANGED <<kind, path, config, bound>>
        /\ c = EnsureFailed(cache, Layout, Complete)
    BY <1>10 DEF EvaluateFails, operator
  <2>2. Layout \in Nat \X Nat /\ Complete \in BOOLEAN
    BY <1>2, <2>1, TargetIsField
  <2>3. c.valid = cache.valid /\ c.current = cache.current
    BY <1>2, <2>1, <2>2, FailedRoomy
  <2> QED BY <1>2, <1>3, <2>1, <2>3 DEF FilledInv
<1>11. ASSUME PreparePlan \/ AcceptStep \/ OrphanEvaluates \/ UNCHANGED vars
       PROVE  Filled(Complex[t]) \subseteq c.current
  BY <1>4, <1>11 DEF PreparePlan, AcceptStep, OrphanEvaluates, vars, operator, values
<1>12. ASSUME NEW h \in DOMAIN Kinds, NEW n \in 1..Kinds[h].add.substeps, AddFails(h, n)
       PROVE  FALSE
  BY <1>12 DEF AddFails, operator, Added
<1>13. ~Destroy
  BY DEF Destroy, Added
<1> QED BY <1>1, <1>5, <1>6, <1>8, <1>9, <1>10, <1>11, <1>12, <1>13 DEF Next, DriftEvaluates

\* So it holds always.
LEMMA FilledInvariant == Spec => []FilledInv
<1>1. Init => FilledInv
  BY DEF Init, FilledInv, Added
<1> QED BY <1>1, FilledNext, RoomInvariant, BaseInvariant, PTL DEF Spec

\* Then no evaluation uses values of another configuration.
CurrentInv == \A k, p : Added /\ K = k /\ path = p /\ OnField(k) /\ RenewsCache(k)
                          /\ ~Piecewise(k, p) => "outdated" \notin faults

\* Every step preserves it.
LEMMA CurrentNext ==
  Base /\ RoomInv /\ StaleInv /\ FilledInv /\ CurrentInv /\ [Next]_vars => CurrentInv'
<1> SUFFICES ASSUME Base, RoomInv, StaleInv, FilledInv, CurrentInv, [Next]_vars,
                    NEW k, NEW p, Added', K' = k, path' = p,
                    OnField(k), RenewsCache(k), ~Piecewise(k, p)
             PROVE  "outdated" \notin faults'
  BY DEF CurrentInv
<1>1. ASSUME NEW h \in DOMAIN Kinds, NEW q \in {"kernel", "split"},
             NEW d \in Configs(Kinds[h]), AddOperator(h, d, q)
      PROVE  "outdated" \notin faults'
  BY <1>1, AddOutcome
<1>2. ASSUME UNCHANGED <<kind, path>>
      PROVE  Added /\ K = k /\ path = p /\ "outdated" \notin faults
  BY <1>2 DEF CurrentInv, Added, K
<1>3. ASSUME NEW d \in Offers, NEW reshaped \in BOOLEAN,
             UpdateOperator(d, reshaped) \/ UpdateRefused(d)
      PROVE  "outdated" \notin faults'
  BY <1>2, <1>3 DEF UpdateOperator, UpdateRefused
<1>4. ASSUME NEW row_fails \in BOOLEAN, NEW same_dt \in BOOLEAN,
             Evaluate(row_fails, same_dt)
      PROVE  "outdated" \notin faults'
  <2>1. /\ UNCHANGED <<kind, path>> /\ Evaluates
        /\ faults' = faults \cup Faults(row_fails)
        /\ Added /\ K = k /\ path = p /\ "outdated" \notin faults
    BY <1>2, <1>4 DEF Evaluate, operator
  <2>2. ASSUME Acts, "cache" \in stale PROVE FALSE
    <3>1. Refuses(k, config) /\ (path = "kernel" => k.add.kernel # NoKernel)
      BY <2>1, <2>2 DEF StaleInv
    <3>2. path = "split" /\ Used = config
      BY <2>1, <3>1, UsedGain DEF Refuses, Base, TypeOK
    <3>3. Fit(config, Required(k), k.step.needs)
      BY <2>1, <2>2, <3>2 DEF Evaluates, Compiled, Idle, Acts
    <3>4. Fit(config, Required(k), k.update.needs)
      BY <3>1, <3>3 DEF Fit, Refuses
    <3> QED BY <3>1, <3>4 DEF Refuses
  <2>3. ASSUME Acts, Static PROVE Filled(Complete) \subseteq Twice.current
    BY <2>1, <2>3, TwiceFilled
  <2>4. "outdated" \notin Faults(row_fails)
    BY <2>2, <2>3 DEF Faults
  <2> QED BY <2>1, <2>4
<1>5. ASSUME Quiet PROVE "outdated" \notin faults'
  BY <1>2, <1>5 DEF Quiet
<1> QED BY <1>1, <1>3, <1>4, <1>5, StepCases

\* So it holds always.
LEMMA CurrentInvariant == Spec => []CurrentInv
<1>1. Init => CurrentInv
  BY DEF Init, CurrentInv, Added
<1> QED BY <1>1, CurrentNext, FilledInvariant, StaleInvariant, RoomInvariant, BaseInvariant,
           PTL DEF Spec
-------------------------------------------------------------------------------
\* What the operator library keeps, kind by kind.
Keeps(n, k) ==
  /\ n \notin Unsanitized => Sanitizes(k)
  /\ n \notin KeepsOldSymbol => RenewsSymbol(k)
  /\ n \notin {"log_spectral_grid", "sieve"} => RenewsCache(k)
  /\ n \notin OnePlaneAtATime => k.memory.derives # "each plane"
  /\ OnField(k)
  /\ n \in Vetted => ChecksFields(k)
  /\ n \notin BakesConstants \cup {"phase_rotate"} => FollowsUpdates(k)
  /\ DeclaresWrites(k)
  /\ n \notin Undeclared => DeclaresReads(k)
  /\ n \notin Hookless => PutsBack(k)

USE DEF Keeps, Unsanitized, KeepsOldSymbol, OnePlaneAtATime, Vetted, BakesConstants,
        Undeclared, Hookless, Sanitizes, RenewsSymbol, RenewsCache, OnField, ChecksFields,
        FollowsUpdates, DeclaresWrites, DeclaresReads, PutsBack, AssignsLate, StaticKind,
        Derives, Required, Gains, Sanitized, Zeroed, Defaulted, KeptOld, AsGiven, Same,
        Planar, Memory, Buffered, SampledOnce, Stateless, Deriving, Step, AddsToField, Kernel,
        NoKernel, FieldKernel, Add, AddOn, Derived, Update, Retarget, CheckedUpdate,
        LateCheck, Allocating, Silent, KeepsSymbol, Resetting, Reshaping, Kind, Stimulus

\* The stimuli.
LEMMA StimuliKeep == \A n \in DOMAIN Stimuli : Keeps(n, Stimuli[n])
<1>1. Keeps("airy_beam", airy_beam)
  BY DEF airy_beam, airy_beam_normalize, airy_beam_step, sim_add_stimulus_airy_beam_operator,
         sim_stimulus_airy_beam_update, airy_beam_refresh_derived
<1>2. Keeps("bessel_beam", bessel_beam)
  BY DEF bessel_beam, bessel_beam_normalize, bessel_beam_step,
         sim_add_stimulus_bessel_beam_operator, sim_stimulus_bessel_beam_update
<1>3. Keeps("checkerboard", checkerboard)
  BY DEF checkerboard, checkerboard_normalize, checkerboard_step,
         sim_add_stimulus_checkerboard_operator, sim_stimulus_checkerboard_update,
         checkerboard_refresh_runtime, checkerboard_build_ir
<1>4. Keeps("chladni", chladni)
  BY DEF chladni, chladni_normalize, chladni_step, sim_add_stimulus_chladni_operator,
         sim_stimulus_chladni_update
<1>5. Keeps("cylindrical_wave_emitter", cylindrical_wave_emitter)
  BY DEF cylindrical_wave_emitter, cylindrical_wave_emitter_normalize,
         cylindrical_wave_emitter_step, sim_add_stimulus_cylindrical_wave_emitter_operator,
         sim_stimulus_cylindrical_wave_emitter_update
<1>6. Keeps("digamma_square", digamma_square)
  BY DEF digamma_square, digamma_square_normalize, digamma_square_step,
         digamma_square_register, sim_stimulus_digamma_square_update,
         digamma_square_drive_time, digamma_square_build_ir
<1>7. Keeps("fourier", fourier)
  BY DEF fourier, fourier_normalize, fourier_step, sim_add_stimulus_fourier_operator,
         sim_stimulus_fourier_update, fourier_ir_eval,
         fourier_kernel_sample
<1>8. Keeps("gabor", gabor)
  BY DEF gabor, gabor_normalize, gabor_step, sim_add_stimulus_gabor_operator,
         sim_stimulus_gabor_update, gabor_drive_time,
         gabor_build_ir
<1>9. Keeps("gaussian", gaussian)
  BY DEF gaussian, gaussian_normalize, gaussian_step, sim_add_stimulus_gaussian_operator,
         sim_stimulus_gaussian_update, gaussian_drive_time, gaussian_restore,
         gaussian_build_ir, gaussian_save
<1>10. Keeps("heat_kernel", heat_kernel)
  BY DEF heat_kernel, heat_kernel_normalize, heat_kernel_step,
         sim_add_stimulus_heat_kernel_operator, sim_stimulus_heat_kernel_update,
         heat_kernel_drive_time, heat_kernel_build_ir
<1>11. Keeps("hermite_gaussian_beam", hermite_gaussian_beam)
  BY DEF hermite_gaussian_beam, hermite_gaussian_beam_normalize, hermite_gaussian_beam_step,
         sim_add_stimulus_hermite_gaussian_beam_operator,
         sim_stimulus_hermite_gaussian_beam_update
<1>12. Keeps("laplace_beltrami", laplace_beltrami)
  BY DEF laplace_beltrami, laplace_beltrami_normalize, laplace_beltrami_step,
         sim_add_stimulus_laplace_beltrami_operator, sim_stimulus_laplace_beltrami_update
<1>13. Keeps("lissajous", lissajous)
  BY DEF lissajous, lissajous_normalize, lissajous_step, sim_add_stimulus_lissajous_operator,
         sim_stimulus_lissajous_update
<1>14. Keeps("log_polar", log_polar)
  BY DEF log_polar, log_polar_normalize, log_polar_step, sim_add_stimulus_log_polar_operator,
         sim_stimulus_log_polar_update
<1>15. Keeps("log_spectral_grid", log_spectral_grid)
  BY DEF log_spectral_grid, log_spectral_grid_normalize, log_spectral_grid_step,
         sim_add_stimulus_log_spectral_grid_operator, sim_stimulus_log_spectral_grid_update,
         log_spectral_grid_rebuild_modes
<1>16. Keeps("moire", moire)
  BY DEF moire, moire_normalize, moire_step, sim_add_stimulus_moire_operator,
         sim_stimulus_moire_update
<1>17. Keeps("morlet_field", morlet_field)
  BY DEF morlet_field, morlet_field_normalize, morlet_field_step,
         sim_add_stimulus_morlet_field_operator, sim_stimulus_morlet_field_update
<1>18. Keeps("optical_vortex", optical_vortex)
  BY DEF optical_vortex, optical_vortex_normalize, optical_vortex_step,
         sim_add_stimulus_optical_vortex_operator, sim_stimulus_optical_vortex_update
<1>19. Keeps("posenc", posenc)
  BY DEF posenc, posenc_normalize, posenc_step, sim_add_stimulus_posenc_operator,
         sim_stimulus_posenc_update
<1>20. Keeps("sinusoidal", sinusoidal)
  BY DEF sinusoidal, sinusoidal_normalize, sinusoidal_step, sinusoidal_register,
         sim_stimulus_sinusoidal_update, sinusoidal_drive_time, sinusoidal_restore,
         sinusoidal_build_ir, sinusoidal_save
<1>21. Keeps("spectral_lines", spectral_lines)
  BY DEF spectral_lines, spectral_lines_normalize, spectral_lines_step,
         sim_add_stimulus_spectral_lines_operator, sim_stimulus_spectral_lines_update,
         spectral_lines_drive_time, spectral_lines_restore, spectral_lines_refresh_coeffs,
         spectral_lines_build_ir, spectral_lines_save
<1>22. Keeps("stimulus", stimulus)
  BY DEF stimulus, stimulus_normalize, stimulus_apply, sim_add_stimulus_operator,
         sim_stimulus_update
<1>23. Keeps("traveling_wave_packet", traveling_wave_packet)
  BY DEF traveling_wave_packet, traveling_wave_packet_normalize, traveling_wave_packet_step,
         sim_add_stimulus_traveling_wave_packet_operator,
         sim_stimulus_traveling_wave_packet_update
<1>24. Keeps("wave_modes", wave_modes)
  BY DEF wave_modes, wave_modes_normalize, wave_modes_step,
         sim_add_stimulus_wave_modes_operator, sim_stimulus_wave_modes_update
<1>25. Keeps("zeta_plane_slice", zeta_plane_slice)
  BY DEF zeta_plane_slice, zeta_plane_slice_normalize, zeta_plane_slice_step,
         sim_add_stimulus_zeta_plane_slice_operator, sim_stimulus_zeta_plane_slice_update,
         zeta_plane_slice_refresh_runtime
<1>26. Keeps("zone_plate", zone_plate)
  BY DEF zone_plate, zone_plate_normalize, zone_plate_step,
         sim_add_stimulus_zone_plate_operator, sim_stimulus_zone_plate_update
<1> HIDE DEF Keeps
<1> QED BY <1>1, <1>2, <1>3, <1>4, <1>5, <1>6, <1>7, <1>8, <1>9, <1>10, <1>11, <1>12, <1>13,
         <1>14, <1>15, <1>16, <1>17, <1>18, <1>19, <1>20, <1>21, <1>22, <1>23, <1>24, <1>25,
         <1>26 DEF Stimuli

\* The noise stimuli.
LEMMA NoiseKeeps == \A n \in DOMAIN NoiseStimuli : Keeps(n, NoiseStimuli[n])
<1>1. Keeps("fbm", fbm)
  BY DEF fbm, fbm_normalize, fbm_step, sim_add_stimulus_fbm_operator, sim_stimulus_fbm_update,
         fbm_fill_static_cache, fbm_kernel_value
<1>2. Keeps("hybrid_fbm", hybrid_fbm)
  BY DEF hybrid_fbm, hybrid_fbm_normalize, hybrid_fbm_step,
         sim_add_stimulus_hybrid_fbm_operator, sim_stimulus_hybrid_fbm_update,
         hybrid_fbm_fill_static_cache,
         hybrid_fbm_kernel_value
<1>3. Keeps("multifractal", multifractal)
  BY DEF multifractal, multifractal_normalize, multifractal_step,
         sim_add_stimulus_multifractal_operator, sim_stimulus_multifractal_update,
         multifractal_fill_static_cache,
         multifractal_kernel_value
<1>4. Keeps("random_fourier", random_fourier)
  BY DEF random_fourier, random_fourier_normalize, random_fourier_step,
         sim_add_stimulus_random_fourier_operator, sim_stimulus_random_fourier_update,
         random_fourier_drive_time, random_fourier_restore, random_fourier_kernel_time,
         random_fourier_ensure_features, random_fourier_kernel_value, random_fourier_save
<1>5. Keeps("rd_seed", rd_seed)
  BY DEF rd_seed, rd_seed_normalize, rd_seed_step, sim_add_stimulus_rd_seed_operator,
         sim_stimulus_rd_seed_update, rd_seed_build_tables
<1>6. Keeps("ridged_noise", ridged_noise)
  BY DEF ridged_noise, ridged_noise_normalize, ridged_noise_step,
         sim_add_stimulus_ridged_noise_operator, sim_stimulus_ridged_noise_update,
         ridged_noise_fill_static_cache,
         ridged_noise_kernel_value
<1>7. Keeps("spectral_shells", spectral_shells)
  BY DEF spectral_shells, spectral_shells_normalize, spectral_shells_step,
         sim_add_stimulus_spectral_shells_operator, sim_stimulus_spectral_shells_update,
         spectral_shells_drive_time, spectral_shells_restore, spectral_shells_ensure_modes,
         spectral_shells_save
<1>8. Keeps("steerable_wavelet", steerable_wavelet)
  BY DEF steerable_wavelet, steerable_wavelet_normalize, steerable_wavelet_step,
         sim_add_stimulus_steerable_wavelet_operator, sim_stimulus_steerable_wavelet_update,
         steerable_wavelet_fill_static_cache,
         steerable_wavelet_kernel_value
<1>9. Keeps("turbulence", turbulence)
  BY DEF turbulence, turbulence_normalize, turbulence_step,
         sim_add_stimulus_turbulence_operator, sim_stimulus_turbulence_update,
         turbulence_fill_static_cache,
         turbulence_kernel_value
<1>10. Keeps("white_noise", white_noise)
  BY DEF white_noise, white_noise_normalize, white_noise_step,
         sim_add_stimulus_white_noise_operator, sim_stimulus_white_noise_update,
         white_noise_ir_eval
<1>11. Keeps("worley_noise", worley_noise)
  BY DEF worley_noise, worley_noise_normalize, worley_noise_step,
         sim_add_stimulus_worley_noise_operator, sim_stimulus_worley_noise_update,
         worley_noise_fill_static_cache,
         worley_noise_kernel_value
<1> HIDE DEF Keeps
<1> QED BY <1>1, <1>2, <1>3, <1>4, <1>5, <1>6, <1>7, <1>8, <1>9, <1>10, <1>11 DEF NoiseStimuli

\* The operators on several fields.
LEMMA FieldsKeep == \A n \in DOMAIN FieldOperators : Keeps(n, FieldOperators[n])
<1>1. Keeps("curl", curl)
  BY DEF curl, curl_normalize_config, curl_apply, sim_add_curl_operator, sim_curl_update,
         curl_validate_fields, curl_resolve_axes, curl_accepts
<1>2. Keeps("divergence", divergence)
  BY DEF divergence, divergence_normalize_config, divergence_apply,
         sim_add_divergence_operator, sim_divergence_update, divergence_validate_fields,
         divergence_resolve_axes, divergence_accepts
<1>3. Keeps("gradient", gradient)
  BY DEF gradient, gradient_normalize_config, gradient_apply, sim_add_gradient_operator,
         sim_gradient_update, gradient_validate_fields, gradient_resolve_axes,
         gradient_accepts
<1>4. Keeps("spatial_derivative", spatial_derivative)
  BY DEF spatial_derivative, spatial_derivative_normalize_config, spatial_derivative_step,
         sim_add_spatial_derivative_operator, sim_spatial_derivative_update,
         spatial_derivative_validate_fields
<1>5. Keeps("mask", mask)
  BY DEF mask, mask_normalize_config, mask_apply, sim_add_mask_operator, sim_mask_update,
         mask_validate_fields
<1>6. Keeps("metal_mix", metal_mix)
  BY DEF metal_mix, metal_mix_normalize_config, metal_mix_apply, sim_add_metal_mix_operator,
         sim_metal_mix_update
<1>7. Keeps("mixer", mixer)
  BY DEF mixer, mixer_normalize_config, mixer_apply, sim_add_mixer_operator, sim_mixer_update,
         mixer_validate_fields
<1>8. Keeps("segmented_sieve_mark", segmented_sieve_mark)
  BY DEF segmented_sieve_mark, segmented_sieve_mark_apply,
         sim_add_segmented_sieve_mark_operator, sim_segmented_sieve_mark_update,
         segmented_sieve_mark_validate_fields
<1>9. Keeps("segmented_sieve_mark_batch", segmented_sieve_mark_batch)
  BY DEF segmented_sieve_mark_batch, segmented_sieve_mark_batch_apply,
         sim_add_segmented_sieve_mark_batch_operator, sim_segmented_sieve_mark_batch_update,
         segmented_sieve_mark_batch_validate_fields
<1>10. Keeps("laplacian", laplacian)
  BY DEF laplacian, laplacian_normalize_config, laplacian_apply, sim_add_laplacian_operator,
         sim_laplacian_update, laplacian_validate_fields, laplacian_resolve_axes,
         laplacian_accepts
<1>11. Keeps("minimal_convolution", minimal_convolution)
  BY DEF minimal_convolution, minimal_convolution_normalize_config,
         minimal_convolution_evaluate, sim_add_minimal_convolution_operator,
         sim_minimal_convolution_update, minimal_convolution_build_kernel_cache,
         minimal_convolution_validate_fields, minimal_convolution_ir_eval,
         minimal_convolution_kernel_samples
<1>12. Keeps("phase_feature", phase_feature)
  BY DEF phase_feature, phase_feature_normalize_config, phase_feature_apply,
         sim_add_phase_feature_operator, sim_phase_feature_update
<1>13. Keeps("sieve", sieve)
  BY DEF sieve, sieve_normalize_config, sieve_apply, sim_add_sieve_operator, sim_sieve_update,
         sieve_rebuild_kernel
<1>14. Keeps("sound_observation", sound_observation)
  BY DEF sound_observation, sound_observation_normalize_config, sound_observation_apply,
         sim_add_sound_observation_operator, sim_sound_observation_update
<1>15. Keeps("neural_hybrid", neural_hybrid)
  BY DEF neural_hybrid, neural_hybrid_normalize_config, neural_hybrid_step,
         sim_add_neural_hybrid_operator, sim_neural_hybrid_update,
         neural_hybrid_fields_compatible
<1>16. Keeps("neural_infer", neural_infer)
  BY DEF neural_infer, neural_infer_normalize_config, neural_infer_step,
         sim_add_neural_infer_operator, sim_neural_infer_update, neural_fields_compatible
<1>17. Keeps("chaos_map", chaos_map)
  BY DEF chaos_map, chaos_map_normalize_config, chaos_map_apply, sim_add_chaos_map_operator,
         sim_chaos_map_update, chaos_map_describe_io_fields, chaos_map_prepare_param_field
<1>18. Keeps("complex_math", complex_math)
  BY DEF complex_math, complex_math_normalize_config, complex_math_apply,
         sim_add_complex_math_operator, sim_complex_math_update
<1>19. Keeps("hysteretic", hysteretic)
  BY DEF hysteretic, hysteretic_normalize_config, hysteretic_apply,
         sim_add_hysteretic_operator, sim_hysteretic_update, hysteretic_prepare_state,
         hysteretic_restore, hysteretic_describe_fields, hysteretic_initialize_state,
         hysteretic_save
<1>20. Keeps("elementwise_math", elementwise_math)
  BY DEF elementwise_math, math_normalize_config, math_apply,
         sim_add_elementwise_math_operator, sim_elementwise_math_update
<1>21. Keeps("remainder", remainder)
  BY DEF remainder, remainder_normalize_config, remainder_apply, sim_add_remainder_operator,
         sim_remainder_update, remainder_ir_eval
<1>22. Keeps("copy", copy)
  BY DEF copy, copy_normalize_config, copy_apply, sim_add_copy_operator, sim_copy_update,
         copy_validate_fields
<1>23. Keeps("scale", scale)
  BY DEF scale, scale_normalize_config, scale_apply, sim_add_scale_operator, sim_scale_update,
         scale_validate_fields
<1> HIDE DEF Keeps
<1> QED BY <1>1, <1>2, <1>3, <1>4, <1>5, <1>6, <1>7, <1>8, <1>9, <1>10, <1>11, <1>12, <1>13,
         <1>14, <1>15, <1>16, <1>17, <1>18, <1>19, <1>20, <1>21, <1>22, <1>23 DEF FieldOperators

\* The operators on one field.
LEMMA SitesKeep == \A n \in DOMAIN SiteOperators : Keeps(n, SiteOperators[n])
<1>1. Keeps("analytic_warp", analytic_warp)
  BY DEF analytic_warp, analytic_warp_normalize_config, analytic_warp_apply,
         sim_add_analytic_warp_operator, sim_analytic_warp_update, analytic_warp_ir_eval,
         analytic_warp_kernel_samples
<1>2. Keeps("dispersion", dispersion)
  BY DEF dispersion, dispersion_apply, sim_add_dispersion_operator, sim_dispersion_update,
         dispersion_ensure_capacity, dispersion_ir_eval,
         dispersion_kernel_samples
<1>3. Keeps("fractional_memory", fractional_memory)
  BY DEF fractional_memory, fractional_memory_apply, sim_add_fractional_memory_operator,
         sim_fractional_memory_update, fractional_memory_apply_history_response,
         fractional_memory_restore, fractional_memory_prepare, fractional_memory_ir_eval,
         fractional_memory_kernel_samples,
         fractional_memory_save
<1>4. Keeps("linear_dissipative", linear_dissipative)
  BY DEF linear_dissipative, linear_dissipative_apply, sim_add_linear_dissipative_operator,
         sim_linear_dissipative_update, linear_dissipative_update_lambda,
         linear_dissipative_kernel_samples,
         linear_dissipative_ir_eval
<1>5. Keeps("linear_spectral_fusion", linear_spectral_fusion)
  BY DEF linear_spectral_fusion, linear_spectral_normalize_config, linear_spectral_apply,
         sim_add_linear_spectral_fusion_operator, sim_linear_spectral_fusion_update,
         linear_spectral_ensure_capacity, linear_spectral_refresh_kernel_constants
<1>6. Keeps("sdr_observer", sdr_observer)
  BY DEF sdr_observer, sdr_observer_normalize_config, sdr_observer_step,
         sim_add_sdr_observer_operator, sim_sdr_observer_update
<1>7. Keeps("ornstein_uhlenbeck", ornstein_uhlenbeck)
  BY DEF ornstein_uhlenbeck, ornstein_uhlenbeck_apply, sim_add_ornstein_uhlenbeck_operator,
         sim_ornstein_uhlenbeck_update
<1>8. Keeps("stochastic_noise", stochastic_noise)
  BY DEF stochastic_noise, stochastic_noise_apply, sim_add_stochastic_noise_operator,
         sim_stochastic_noise_update
<1>9. Keeps("thermostat", thermostat)
  BY DEF thermostat, thermostat_normalize_config, thermostat_apply,
         sim_add_thermostat_operator, sim_thermostat_update, thermostat_restore,
         thermostat_ir_eval, thermostat_save,
         thermostat_kernel_samples
<1>10. Keeps("coordinate", coordinate)
  BY DEF coordinate, coordinate_normalize_config, coordinate_apply,
         sim_add_coordinate_operator, sim_coordinate_update, coordinate_refresh_runtime
<1>11. Keeps("phase_rotate", phase_rotate)
  BY DEF phase_rotate, phase_rotate_apply, sim_add_phase_rotate_operator,
         sim_phase_rotate_update
<1>12. Keeps("zero_field", zero_field)
  BY DEF zero_field, zero_field_apply, sim_add_zero_field_operator, sim_zero_field_update
<1> HIDE DEF Keeps
<1> QED BY <1>1, <1>2, <1>3, <1>4, <1>5, <1>6, <1>7, <1>8, <1>9, <1>10, <1>11, <1>12
        DEF SiteOperators

HIDE DEF Keeps, Unsanitized, KeepsOldSymbol, OnePlaneAtATime, Vetted, BakesConstants,
         Undeclared, Hookless, Sanitizes, RenewsSymbol, RenewsCache, OnField, ChecksFields,
         FollowsUpdates, DeclaresWrites, DeclaresReads, PutsBack, AssignsLate, StaticKind,
         Derives, Required, Gains, Sanitized, Zeroed, Defaulted, KeptOld, AsGiven, Same,
         Planar, Memory, Buffered, SampledOnce, Stateless, Deriving, Step, AddsToField,
         Kernel, NoKernel, FieldKernel, Add, AddOn, Derived, Update, Retarget, CheckedUpdate,
         LateCheck, Allocating, Silent, KeepsSymbol, Resetting, Reshaping, Kind, Stimulus

\* So does every operator that a context has.
LEMMA KindKeeps ==
  ASSUME Base, Added
  PROVE  Keeps(kind, K)
<1>1. kind \in DOMAIN Kinds
  BY DEF Base, TypeOK, Added
<1>2. kind \in DOMAIN Library /\ K = Library[kind]
  BY <1>1, TableAssumption DEF K
<1>3. /\ K = Entry(kind)
      /\ kind \in DOMAIN Stimuli \cup DOMAIN NoiseStimuli \cup DOMAIN FieldOperators
                    \cup DOMAIN SiteOperators
  BY <1>2 DEF Library
<1> QED BY <1>3, StimuliKeep, NoiseKeeps, FieldsKeep, SitesKeep DEF Entry
-------------------------------------------------------------------------------
\* The variables keep their types: what updates store are configurations of the
\* operator's own ports.
THEOREM TypeCorrect == Spec => []TypeOK
<1>1. Base => TypeOK
  BY DEF Base
<1> QED BY <1>1, BaseInvariant, PTL

\* A parameter that is not a finite number never reaches a field, but in the four kinds
\* whose normalizers let it through.
THEOREM ParametersAreSanitized == Spec => []FiniteStaysFinite
<1>1. Base /\ FiniteInv => FiniteStaysFinite
  BY KindKeeps DEF Base, Fresh, FiniteInv, FiniteStaysFinite, Keeps
<1> QED BY <1>1, BaseInvariant, FiniteInvariant, PTL

\* No evaluation uses values of an earlier configuration, but in the two kinds that
\* assign before they have memory and in the kernels that fill one plane at a time.
THEOREM EvaluationsAreCurrent == Spec => []UsesCurrentValues
<1> SUFFICES ASSUME Base, CurrentInv, "outdated" \in faults,
                    kind \notin {"log_spectral_grid", "sieve"},
                    ~(kind \in OnePlaneAtATime /\ path = "kernel")
             PROVE  FALSE
  <2>1. Base /\ CurrentInv => UsesCurrentValues
    BY DEF UsesCurrentValues
  <2> QED BY <2>1, BaseInvariant, CurrentInvariant, PTL
<1>1. Added
  BY DEF Base, Fresh
<1>2. OnField(K) /\ RenewsCache(K) /\ ~Piecewise(K, path)
  BY <1>1, KindKeeps DEF Keeps, Piecewise
<1> QED BY <1>1, <1>2 DEF CurrentInv

\* The real plane of every static cache has room for the layout it is valid for.
THEOREM RealPlanesFit == Spec => []RealPlaneFits
<1>1. ASSUME Base, RoomInv PROVE RealPlaneFits
  <2>1. CASE Added
    BY <1>1, <2>1, KindKeeps DEF Keeps, RoomInv, Roomy, RealPlaneFits
  <2>2. CASE ~Added
    BY <1>1, <2>2 DEF Base, Fresh, EmptyCache, RealPlaneFits
  <2> QED BY <2>1, <2>2
<1> QED BY <1>1, BaseInvariant, RoomInvariant, PTL

\* What add and update accept can be evaluated, for the kinds that check their fields.
THEOREM AcceptedCanEvaluate == Spec => []AcceptedEvaluates
<1>1. Base /\ FitInv => AcceptedEvaluates
  BY KindKeeps, FitEvaluates DEF AcceptedEvaluates, Keeps
<1> QED BY <1>1, BaseInvariant, FitInvariant, PTL

\* The gain in use is that of the configuration, but in kernels with baked constants.
THEOREM UpdatesAreEffective == Spec => []UpdatesTakeEffect
<1>1. Base /\ PatchedInv => UpdatesTakeEffect
  BY KindKeeps, FollowsEffect DEF UpdatesTakeEffect, Keeps
<1> QED BY <1>1, BaseInvariant, PatchedInvariant, PTL

\* An operator that is where it was registered touches no field the planner was not told
\* of; three kinds read one.
THEOREM TouchesOnlyDeclared == Spec => []TouchesDeclared
<1>1. Base => TouchesDeclared
  BY KindKeeps, DeclaredTouches DEF TouchesDeclared, Keeps
<1> QED BY <1>1, BaseInvariant, PTL

\* The symbol is that of the configuration, but in the five kinds that keep the old one.
THEOREM SymbolsAreCurrent == Spec => []SymbolCurrent
<1>1. Base /\ SymbolInv => SymbolCurrent
  BY KindKeeps DEF Base, Fresh, SymbolInv, SymbolCurrent, Keeps
<1> QED BY <1>1, BaseInvariant, SymbolInvariant, PTL

\* An evaluation in drift mode (sim_context_apply_operator) leaves clock, phase, generator
\* and history as they were, in every kind but those of Hookless, unless it has to give
\* the history buffers of another size.  The samples of a kernel are not put back.
THEOREM DriftRestoresMemory == Spec => DriftLeavesMemory
<1> DEFINE Leaves == memory' # memory /\ DriftEvaluates =>
                       \/ kind \in Hookless \/ Resizes
                       \/ \A m \in Memories \ {"samples"} : memory'[m] = memory[m]
<1>1. ASSUME Base, NEW same_dt \in BOOLEAN, DriftEvaluate(same_dt), kind \notin Hookless,
             ~Resizes
      PROVE  \A m \in Memories \ {"samples"} : memory'[m] = memory[m]
  <2>1. PutsBack(K)
    BY <1>1, KindKeeps DEF DriftEvaluate, Keeps
  <2> QED BY <1>1, <2>1, DriftPutsBack
<1>2. Base => [Leaves]_vars
  BY <1>1 DEF DriftEvaluates
<1> QED BY <1>2, BaseInvariant, PTL DEF DriftLeavesMemory
==============================================================================
