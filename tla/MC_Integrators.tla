---------------------------- MODULE MC_Integrators ----------------------------
(* All schemes, on real fields and a complex one. *)
EXTENDS Integrators

MCTargets == { [length |-> 1, element_size |-> 1], [length |-> 2, element_size |-> 1],
               [length |-> 2, element_size |-> 2] }
\* The requests: not positive or not a number, within the bounds, and beyond them.
MCRequests == {NaN, 0, 3, 7}
MCMaxAttempts == [explicit |-> 3, implicit |-> 2]
================================================================================
