----------------------------- MODULE PlanAbstract -----------------------------
(***************************************************************************)
(* What sim_operator_resolve_plan promises, with no algorithm in it: a     *)
(* resolve call ends with a plan that schedules every registered operator  *)
(* once, after its explicit dependencies and in registration order with    *)
(* respect to every operator it shares a written field with; or with an    *)
(* error and an empty plan.  The only errors are a dependency that names   *)
(* no operator, constraints that no order meets, and a failed allocation.  *)
(***************************************************************************)
EXTENDS PlanConstraints

CONSTANTS Descriptors,   \* the operator descriptors a caller may register
          MaxOps         \* bound on the number of registered operators

VARIABLES registry,      \* registered descriptors, in registration order
          resolving,     \* a resolve call is under way
          plan,          \* SimOperatorPlan.order, empty when there is none
          result         \* outcome of the last resolve call, "none" if stale

vars == <<registry, resolving, plan, result>>

Init == /\ registry = << >>
        /\ resolving = FALSE
        /\ plan = << >>
        /\ result = "none"

Register(d) == /\ ~resolving
               /\ Len(registry) < MaxOps
               /\ registry' = Append(registry, d)
               /\ result' = "none"
               /\ UNCHANGED <<resolving, plan>>

Begin == /\ ~resolving
         /\ resolving' = TRUE
         /\ plan' = << >>
         /\ result' = "none"
         /\ UNCHANGED registry

Succeed == /\ ~DanglingDependency(registry)
           /\ plan' \in ValidPlans(registry)
           /\ result' = "OK"

Fail == /\ plan' = << >>
        /\ \/ result' = "OUT_OF_MEMORY"
           \/ DanglingDependency(registry) /\ result' = "INVALID_ARGUMENT"
           \/ ValidPlans(registry) = {} /\ result' = "DEPENDENCY_ERROR"

End == /\ resolving
       /\ resolving' = FALSE
       /\ Succeed \/ Fail
       /\ UNCHANGED registry

Next == (\E d \in Descriptors : Register(d)) \/ Begin \/ End

Spec == Init /\ [][Next]_vars /\ WF_vars(End)
===============================================================================
