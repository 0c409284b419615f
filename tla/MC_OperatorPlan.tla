---------------------------- MODULE MC_OperatorPlan ----------------------------
(* An instance of OperatorPlan for TLC: two fields and up to three operators. *)
EXTENDS OperatorPlan

CONSTANTS F1, F2

TwoFields == {F1, F2}

\* Every access pattern with at most one written field, dependencies on an earlier, a
\* later or the same operator, and ones that are duplicated or out of range.
TwoFieldDescriptors ==
  [reads : SUBSET TwoFields, writes : { {}, {F1}, {F2} }, deps : { << >> }]
  \cup [reads : { {}, {F1} }, writes : { {}, {F1} }, deps : { <<1>>, <<3>> }]
  \cup { [reads |-> {F1}, writes |-> {F2}, deps |-> <<1, 1>>],
         [reads |-> {}, writes |-> {}, deps |-> <<4>>] }
===============================================================================
