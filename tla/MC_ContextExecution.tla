------------------------- MODULE MC_ContextExecution -------------------------
(* An instance of ContextExecution for TLC.                                *)
EXTENDS ContextExecution, TLC

Op(r, w, s, c, b, x) == [reads |-> r, writes |-> w, deps |-> << >>, saves |-> s,
                         complex_input |-> c, complex_output |-> c,
                         read_indices |-> r, write_mask |-> w, norm_budget |-> b, dirties |-> x]

\* A source with hooks, a consumer with a norm budget and without hooks, and an
\* operator that needs complex fields and counts as stable.
SomeDescriptors == { Op({}, {1}, TRUE, FALSE, FALSE, TRUE),
                     Op({1}, {2}, FALSE, FALSE, TRUE, TRUE),
                     Op({2}, {2}, TRUE, TRUE, FALSE, FALSE) }
SomeFields == [complex : {FALSE}, marked : {FALSE}, data : Values]
              \cup [complex : {TRUE}, marked : {TRUE}, data : Values]
ValueSymmetry == Permutations(Values)
===============================================================================
