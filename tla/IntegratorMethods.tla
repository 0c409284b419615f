--------------------------- MODULE IntegratorMethods ---------------------------
(***************************************************************************)
(* The integration schemes of integrators/src, one record each: how their  *)
(* step function repeats itself, how many scratch buffers it asks for, how *)
(* often it evaluates the drift in an attempt, and, where an error is      *)
(* estimated, how often more; whether it stores the step it tries as the   *)
(* suggestion for the next one at once, and how it replaces it at the end; *)
(* whether the factory leaves the choice of error control to the caller.   *)
(***************************************************************************)
EXTENDS Naturals, Sequences

Scheme(loop, buffers, drifts, estimates, eager, suggests, adaptive) ==
  [loop |-> loop, buffers |-> buffers, drifts |-> drifts, estimates |-> estimates,
   eager |-> eager, suggests |-> suggests, adaptive |-> adaptive]

euler == Scheme("explicit", 5, 1, 1, FALSE, "always", BOOLEAN)
heun == Scheme("explicit", 5, 2, 0, FALSE, "accepted", BOOLEAN)
rk4 == Scheme("explicit", 5, 4, 1, TRUE, "accepted", BOOLEAN)
rkf45_step == Scheme("explicit", 7, 6, 0, TRUE, "accepted", BOOLEAN)
integrator_rkf45_create == [rkf45_step EXCEPT !.adaptive = {TRUE}]
backward_euler == Scheme("implicit", 5, 1, 0, FALSE, "never", BOOLEAN)
crank_nicolson == Scheme("implicit", 6, 1, 0, FALSE, "never", BOOLEAN)
subordination == Scheme("quadrature", 3, 1, 0, FALSE, "never", BOOLEAN)
etdrk4_buffers == Scheme("exponential", 14, 0, 0, FALSE, "never", BOOLEAN)
integrator_etdrk4_create == [etdrk4_buffers EXCEPT !.adaptive = {FALSE}]

\* integrator_registry_register_builtin.
Methods == [euler |-> euler, heun |-> heun, rk4 |-> rk4, rkf45 |-> integrator_rkf45_create,
            backward_euler |-> backward_euler, crank_nicolson |-> crank_nicolson,
            etdrk4 |-> integrator_etdrk4_create, subordination |-> subordination]

\* The stages of etdrk4: flows of the exact linear part and evaluations of the rest.
\* A quadrature is a sequence of flows.
etdrk4_step == <<"flow", "rest", "flow", "rest", "flow", "rest", "flow", "flow", "rest",
                 "flow", "flow", "flow", "flow">>
================================================================================
