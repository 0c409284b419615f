---------------------------- MODULE PlanConstraints ----------------------------
(***************************************************************************)
(* The ordering constraints that a registry of operators puts on its       *)
(* execution plan.  A registry is a sequence of descriptors with the       *)
(* fields reads and writes (sets of field indices) and deps (a sequence of *)
(* operator numbers).  Operator numbers start at 1 here and at 0 in the    *)
(* code.                                                                   *)
(***************************************************************************)
EXTENDS Naturals, Sequences

\* Operators a and b of r touch a common field that one of them writes.
Conflict(r, a, b) ==
  \/ \E f \in r[a].writes : f \in r[b].reads \cup r[b].writes
  \/ \E f \in r[a].reads : f \in r[b].writes

\* Operator b of r names operator a in its dependency list.
DependsOn(r, b, a) == \E k \in DOMAIN r[b].deps : r[b].deps[k] = a

\* Operator a of r has to run before operator b.
MustPrecede(r, a, b) == DependsOn(r, b, a) \/ (a < b /\ Conflict(r, a, b))

\* Some dependency list of r names an operator that does not exist.
DanglingDependency(r) ==
  \E b \in DOMAIN r : \E k \in DOMAIN r[b].deps : r[b].deps[k] > Len(r)

\* The orders of the operators of r that meet all constraints.
ValidPlans(r) ==
  { p \in [DOMAIN r -> DOMAIN r] :
      /\ \A x, y \in DOMAIN r : p[x] = p[y] => x = y
      /\ \A x, y \in DOMAIN r : MustPrecede(r, p[x], p[y]) => x < y }
===============================================================================
