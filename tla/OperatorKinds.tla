---------------------------- MODULE OperatorKinds ----------------------------
(***************************************************************************)
(* The vocabulary in which the tables OperatorsStimulus, OperatorsNoise,   *)
(* OperatorsFields and OperatorsSites describe the operators of            *)
(* core/src/operators, one record per operator, and in which               *)
(* OperatorLibrary runs them.                                              *)
(*                                                                         *)
(* What an operator computes is left out.  What is kept is its control:    *)
(* which fields it declares and which it touches, what it checks and when, *)
(* which parameters it sanitizes, which private memory an evaluation moves *)
(* and which of it the drift hooks put back, what an update replaces and   *)
(* what it forgets.                                                        *)
(***************************************************************************)
EXTENDS Naturals

\* The parameter that scales an operator's effect: not a finite number, zero, or
\* any other number.
Gains == {"nan", "zero", "set"}

\* What a normalizer stores for the parameter new of a caller when old is stored, as
\* a function of old and then of new.
Normalizers == [Gains -> [Gains -> Gains]]
Sanitized(default) ==
  [old \in Gains |-> [new \in Gains |-> IF new = "nan" THEN default ELSE new]]
Zeroed == Sanitized("zero")
Defaulted == Sanitized("set")
KeptOld == [old \in Gains |-> [new \in Gains |-> IF new = "nan" THEN old ELSE new]]
AsGiven == [old \in Gains |-> [new \in Gains |-> new]]

\* Demands on the fields bound to the ports P, as <<demand, P>>:
\*   "size"     the same number of elements
\*   "storage"  all complex or none
\*   "wide"     a complex one needs a complex output
\*   "apart"    different fields
\*   "planar"   one or two dimensions,  "surface"  at least two,
\*   "real", "complex"
Demands == {"size", "storage", "wide", "apart", "planar", "surface", "real", "complex"}
Same(P) == { <<"size", P>>, <<"storage", P>> }
Planar == { <<"planar", {"field"}>> }
-------------------------------------------------------------------------------
\* Private memory that outlives an evaluation: a locked clock, a phase, a random
\* generator, a history, and the samples by which a kernel answers for the rest of the
\* step; those of them an evaluation moves, and those the drift hooks save and restore.
\* Then when the values derived from the configuration are computed: in the add
\* ("eager"), in the first evaluation ("lazy") or there are none; or whether they are a
\* static cache, filled for both planes of a complex field at once ("planes") or, by a
\* kernel, when one is asked for ("each plane").  The history may lie in buffers that an
\* evaluation allocates anew for a field of another size, and the snapshot of the hooks
\* with them or not; the samples are those of a step, or of a step and its timestep.
Memories == {"clock", "phase", "random", "history", "samples"}
Memory(moved, saved, derives) ==
  [moved |-> moved, saved |-> saved, derives |-> derives, buffers |-> "none",
   keyed |-> "timestep"]
Stateless == Memory({}, {}, "none")
Deriving(when) == Memory({}, {}, when)
Buffered(private, how) == [private EXCEPT !.buffers = how]
SampledOnce(private) == [private EXCEPT !.keyed = "step"]

\* The accelerated loops over rows that a step tries before its plain loop: there are
\* none, their checks all precede the first row they add to, or each row has a check
\* of its own, after the rows before it have been added to.
RowLoops == {"none", "upfront", "rowwise"}

\* An evaluation: the ports it reads and writes, what it demands of their fields,
\* and whether a zero gain makes it return before it looks at them ("early"), after
\* ("late") or not at all; its accelerated loop; whether it also runs in drift mode.
Step(reads, writes, needs, idle) ==
  [reads |-> reads, writes |-> writes, needs |-> needs, idle |-> idle, rows |-> "none",
   drifts |-> TRUE]
AddsToField(needs, idle, rows) ==
  [Step({"field"}, {"field"}, needs, idle) EXCEPT !.rows = rows]

\* A kernel registered instead of a split operator: the ports in its masks, and where
\* its constants come from: the configuration at every evaluation ("live"), its
\* expression, which updates patch ("patched") or do not ("baked").
Kernel(reads, writes, constants) ==
  [reads |-> reads, writes |-> writes, constants |-> constants]
NoKernel == Kernel({}, {}, "live")
FieldKernel(constants) == Kernel({"field"}, {"field"}, constants)

\* A registration: the ports declared as read and as written, what is demanded of
\* them beyond being there, the kernel it may register and its number of substeps.
Add(reads, writes, needs, kernel) ==
  [reads |-> reads, writes |-> writes, needs |-> needs, kernel |-> kernel, substeps |-> 1]
AddOn(kernel) == Add({"field"}, {"field"}, {}, kernel)

\* An update: whether it takes over the caller's field indices ("retarget"), keeps
\* its own ("pinned") or refuses others ("same"); whether it checks what it needs
\* before it assigns, after it or never; whether it asks for memory, which it may not
\* get, before it assigns, after it or not ("none"); whether it invalidates the
\* scheduler's plan; which of the values derived from the configuration it renews, and
\* which of these before it checks; which memory it resets, and whether it may also
\* free the buffers of the history, because their number has changed.
Derived == {"cache", "symbol"}
Update(assigns, order, needs) ==
  [assigns |-> assigns, order |-> order, needs |-> needs, alloc |-> "none", replans |-> TRUE,
   renews |-> Derived, early |-> {}, resets |-> {}, reshapes |-> FALSE]
Retarget == Update("retarget", "never", {})
CheckedUpdate(needs) == Update("retarget", "before", needs)
LateCheck(needs, early) == [Update("retarget", "after", needs) EXCEPT !.early = early]
Allocating(u, when) == [u EXCEPT !.alloc = when]
Silent(u) == [u EXCEPT !.replans = FALSE]
KeepsSymbol(u) == [u EXCEPT !.renews = {"cache"}]
Resetting(u, S) == [u EXCEPT !.resets = S]
Reshaping(u) == [u EXCEPT !.reshapes = TRUE]

Kind(ports, normalize, renormalize, step, add, update, private) ==
  [ports |-> ports, normalize |-> normalize, renormalize |-> renormalize, step |-> step,
   add |-> add, update |-> update, memory |-> private]

\* A stimulus adds to its one field and normalizes in the same way in add and update.
Stimulus(normalize, step, add, update, private) ==
  Kind({"field"}, normalize, normalize, step, add, update, private)
==============================================================================
