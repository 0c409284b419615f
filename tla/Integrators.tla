------------------------------ MODULE Integrators ------------------------------
(***************************************************************************)
(* An integrator that advances a field of a context step by step:          *)
(* integrator_step_context and the step functions of integrators/src.      *)
(*                                                                         *)
(* The numbers a scheme computes are left out; what is kept is which step  *)
(* size the result in the field was computed with, what the integrator     *)
(* says about it, and what it has borrowed from the context meanwhile: its *)
(* timestep, drift mode, the clock's override and the field itself.        *)
(* An evaluation of the drift is one step here, as ContextExecution shows  *)
(* that it leaves no trace; the stages of etdrk4, which evaluates without  *)
(* it, are not.                                                            *)
(***************************************************************************)
EXTENDS StepSize, IntegratorWorkspace, IntegratorMethods

CONSTANTS Requests,     \* timesteps a caller may ask for; 0 stands for none, and a NaN
                        \* is one too
          Safeties,     \* values of config->safety, in twentieths
          Hints,        \* values of config->workspace_hint
          Targets,      \* fields it may advance: [length, element_size]
          DefaultDt,    \* SIM_RUNTIME_DEFAULT_DT
          MaxAttempts,  \* max_attempts by loop: 8 and 6 in the code
          Iterations,   \* max_iterations: 12 in the code
          Nodes,        \* quadrature_n: 128 by default
          Plans,        \* what the context's plan may hold: operators that etdrk4 takes
                        \* for an exact flow, others, and split operators with an
                        \* error_measure, which report their timestep
          InnerDts,     \* timesteps at a node of a quadrature and in a flow
          Failing       \* buffers whose allocation may fail

ASSUME IntegratorAssumption ==
  /\ Requests \subseteq Dts /\ Safeties \subseteq Nat \ {0} /\ Hints \subseteq Nat
  /\ Targets \subseteq [length : Nat \ {0}, element_size : 1..2]
  /\ DefaultDt \in Nat \ {0}
  /\ MaxAttempts \in [{"explicit", "implicit"} -> Nat \ {0, 1}]
  /\ Iterations \in Nat \ {0} /\ Nodes \in Nat \ {0}
  /\ Plans \subseteq SUBSET {"flow", "rest", "reports"}
  /\ InnerDts \subseteq Nat \ {0} /\ Failing \subseteq Nat \ {0}

VARIABLES setup,       \* its scheme and settings, and the kind of the context's plan
          current_dt,  \* the suggestion for the next step
          last,        \* last_step, last_attempt_count, last_rejection_count
          workspace,   \* its buffers
          starved,     \* a resize of the buffers has failed half-way
          context,     \* timestep, drift mode, override of the clock, stepping
          field,       \* what the target holds: its data, a stage's or the result
          call         \* the running step

vars == <<setup, current_dt, last, workspace, starved, context, field, call>>

Method == Methods[setup.method]
Setups == { s \in [method : DOMAIN Methods, adaptive : BOOLEAN, safety : Safeties, hint : Hints,
                   plan : Plans] :
              /\ s.adaptive \in Methods[s.method].adaptive
              /\ Methods[s.method].loop = "exponential" \/ s.plan \subseteq {"reports"} }

\* Where the running call is; dt is the timestep asked for, step the one being tried,
\* tried the one of the latest result, made the number of attempts, stage the place in
\* a quadrature or in the stages, feedback the time that split operators have reported.
NoCall == [pc |-> "idle", dt |-> 0, step |-> 0, tried |-> 0, made |-> 0, stage |-> 0,
           accepted |-> FALSE, error |-> "small", feedback |-> 0, failed |-> FALSE,
           target |-> [length |-> 1, element_size |-> 1]]

\* integrator_configure.
Init == /\ setup \in Setups
        /\ current_dt \in { integrator_clamp_dt(IF d > 0 THEN d ELSE MinDt) : d \in Requests }
        /\ last = [step |-> current_dt, attempts |-> 1, rejections |-> 0]
        /\ workspace = IF setup.hint = 0 THEN NoWorkspace
                                         ELSE Ensured(NoWorkspace, 1, setup.hint, 1)
        /\ starved = FALSE
        /\ context = [dt |-> DefaultDt, drift |-> 0, override |-> FALSE, stepping |-> FALSE]
        /\ field = "data"
        /\ call = NoCall

At(pc) == call.pc = pc
Report == <<current_dt, last>>
Buffers == <<workspace, starved>>
-------------------------------------------------------------------------------
\* sim_context_set_timestep.
SetTimestep(d) == IF d > 0 THEN d ELSE DefaultDt

\* A mutant: the request is not clamped.
FirstStepUnbounded(dt) == IF dt > 0 THEN dt ELSE current_dt

\* integrator_step_context, up to the step function and the check of its buffers.
\* subordination takes the request as it is.
FirstStep(dt) == IF Method.loop = "quadrature" THEN dt
                 ELSE integrator_clamp_dt(IF dt > 0 THEN dt ELSE current_dt)

\* etdrk4 has nothing to do with a real field.
Supports(t) == Method.loop = "exponential" => t.element_size = 2

StepBegin(dt, t) ==
  /\ At("idle") /\ Supports(t)
  /\ context' = [context EXCEPT !.stepping = TRUE, !.dt = SetTimestep(dt)]
  /\ workspace' = Ensured(workspace, Method.buffers, t.length, t.element_size)
  /\ call' = [NoCall EXCEPT !.pc = Method.loop, !.dt = dt, !.step = FirstStep(dt),
                            !.target = t]
  /\ current_dt' = IF Method.eager THEN FirstStep(dt) ELSE current_dt
  /\ field' = "data"
  /\ UNCHANGED <<setup, last, starved>>

StepUnsupported(dt, t) ==
  /\ At("idle") /\ ~Supports(t)
  /\ context' = [context EXCEPT !.stepping = TRUE, !.dt = SetTimestep(dt)]
  /\ call' = [NoCall EXCEPT !.pc = "return", !.dt = dt, !.failed = TRUE, !.target = t]
  /\ field' = "data"
  /\ UNCHANGED <<setup, Report, Buffers>>

\* A plan that cannot be prepared, or no target.
StepRefused(dt) == /\ At("idle")
                   /\ context' = [context EXCEPT !.dt = SetTimestep(dt)]
                   /\ UNCHANGED <<setup, Report, Buffers, field, call>>

\* No memory for the i-th buffer: the step function returns.
WorkspaceFails(dt, t, i) ==
  /\ At("idle") /\ Supports(t)
  /\ i \in 1..Method.buffers
  /\ context' = [context EXCEPT !.stepping = TRUE, !.dt = SetTimestep(dt)]
  /\ workspace' = EnsureFails(workspace, Method.buffers, t.length, t.element_size, i)
  /\ starved' = (starved \/ NeedsResize(workspace, t.length, t.element_size))
  /\ call' = [NoCall EXCEPT !.pc = "return", !.dt = dt, !.failed = TRUE, !.target = t]
  /\ field' = "data"
  /\ UNCHANGED <<setup, Report>>
-------------------------------------------------------------------------------
\* n evaluations of the plan at the context's timestep.
Feedback(n) == IF "reports" \in setup.plan THEN call.feedback + n * context.dt
                                           ELSE call.feedback

\* A mutant: an error above the tolerance is rejected, which a NaN is not.
AcceptsNaN(error) == ~setup.adaptive \/ error # "large" \/ AtMost(call.step, MinDt)

Accepts(error) == \/ ~setup.adaptive
                  \/ error = "small"
                  \/ AtMost(call.step, MinDt)

\* An error is estimated only with error control.  The norm of a real field is a chain
\* of fmax, which drops a NaN: a field of NaNs has no error at all.  That of a complex
\* field is a sum, which keeps it.
Estimates ==
  IF ~setup.adaptive THEN {"small"}
  ELSE IF call.target.element_size = 1
         THEN IF call.step = NaN THEN {"small"} ELSE {"small", "large"}
         ELSE IF call.step = NaN THEN {"nan"} ELSE Errors

\* What an attempt that ended in this way makes of the call.
Tried(error) == [call EXCEPT !.tried = call.step, !.made = @ + 1, !.error = error,
                             !.accepted = Accepts(error),
                             !.feedback = Feedback(Method.drifts + IF setup.adaptive
                                                     THEN Method.estimates ELSE 0)]

LastAttempt == call.made + 1 = MaxAttempts[Method.loop]

\* One attempt of euler, heun, rk4 or rkf45.
Attempt(error) ==
  /\ At("explicit") /\ error \in Estimates
  /\ IF Accepts(error)
       THEN call' = [Tried(error) EXCEPT !.pc = "finish"] /\ UNCHANGED current_dt
       ELSE \E s \in integrator_suggest_dt(call.step, error, TRUE, setup.safety) :
              LET smaller == integrator_reject_dt(call.step, s, setup.safety)
              IN /\ call' = [Tried(error) EXCEPT !.step = smaller,
                                !.pc = IF LastAttempt THEN "finish" ELSE "explicit"]
                 /\ current_dt' = IF Method.eager THEN smaller ELSE current_dt
  /\ UNCHANGED <<setup, last, Buffers, context, field>>

\* One of backward_euler or crank_nicolson: n iterations, of which the last converges
\* or is the last one allowed.
Gives == \/ ~setup.adaptive
         \/ call.step <= MinDt

Iterate(n, converged) ==
  /\ At("implicit")
  /\ ~converged => n = Iterations
  /\ call' = LET tried == [call EXCEPT !.tried = call.step, !.made = @ + 1,
                                       !.accepted = converged,
                                       !.feedback = Feedback(n + 1)]
             IN IF converged \/ Gives THEN [tried EXCEPT !.pc = "finish"]
                ELSE [tried EXCEPT !.step = Max(MinDt, Halved(call.step, setup.safety)),
                                   !.pc = IF LastAttempt THEN "finish" ELSE "implicit"]
  /\ UNCHANGED <<setup, Report, Buffers, context, field>>

\* A mutant: what has been computed when an evaluation fails is stored.
AttemptFailsStored(n) ==
  /\ At("explicit") /\ n <= Method.drifts
  /\ field' = "result"
  /\ call' = [call EXCEPT !.pc = "return", !.failed = TRUE]
  /\ UNCHANGED <<setup, Report, Buffers, context>>

\* The n-th evaluation of the drift fails: the step function returns.
AttemptFails(n) == /\ \/ At("explicit") /\ n <= Method.drifts + Method.estimates
                      \/ At("implicit") /\ n <= Iterations + 1
                   /\ call' = [call EXCEPT !.pc = "return", !.failed = TRUE,
                                           !.feedback = Feedback(n)]
                   /\ UNCHANGED <<setup, Report, Buffers, context, field>>

NextSuggestions ==
  IF \/ Method.suggests = "always"
     \/ Method.suggests = "accepted" /\ setup.adaptive /\ call.accepted
    THEN integrator_suggest_dt(call.step, call.error, setup.adaptive, setup.safety)
    ELSE { integrator_clamp_dt(call.step) }

AttemptsReported == IF call.accepted THEN call.made ELSE MaxAttempts[Method.loop]

\* A mutant: the next suggestion is reported as the step taken.
FinishReportsNext ==
  /\ At("finish")
  /\ field' = "result"
  /\ current_dt' \in NextSuggestions
  /\ last' = [step |-> current_dt', attempts |-> AttemptsReported,
              rejections |-> IF setup.adaptive THEN AttemptsReported - 1 ELSE 0]
  /\ call' = [call EXCEPT !.pc = "return"]
  /\ UNCHANGED <<setup, Buffers, context>>

\* The result of the latest attempt is stored, accepted or not, and reported.
Finish == /\ At("finish")
          /\ field' = "result"
          /\ last' = [step |-> call.step, attempts |-> AttemptsReported,
                      rejections |-> IF setup.adaptive THEN AttemptsReported - 1 ELSE 0]
          /\ current_dt' \in NextSuggestions
          /\ call' = [call EXCEPT !.pc = "return"]
          /\ UNCHANGED <<setup, Buffers, context>>

\* A scheme without attempts has computed its result.
StoreResult == /\ field' = "result"
               /\ last' = [step |-> call.step, attempts |-> 1, rejections |-> 0]
               /\ current_dt' = integrator_clamp_dt(call.step)
-------------------------------------------------------------------------------
\* subordination: the drift at each node, at a timestep of the node's own.
NodeBegin(d) == /\ At("quadrature") /\ call.stage < Nodes
                /\ context' = [context EXCEPT !.dt = d]
                /\ call' = [call EXCEPT !.pc = "node"]
                /\ UNCHANGED <<setup, Report, Buffers, field>>

\* A mutant: a node whose drift fails is tried again.
NodeEndRetries(ok) ==
  /\ At("node")
  /\ context' = [context EXCEPT !.dt = SetTimestep(call.dt)]
  /\ call' = [call EXCEPT !.pc = "quadrature", !.stage = IF ok THEN @ + 1 ELSE @,
                          !.feedback = Feedback(1)]
  /\ UNCHANGED <<setup, Report, Buffers, field>>

\* A mutant: a failure returns with the node's timestep.
NodeEndKeepsDt(ok) ==
  /\ At("node")
  /\ context' = IF ok THEN [context EXCEPT !.dt = SetTimestep(call.dt)] ELSE context
  /\ call' = [call EXCEPT !.pc = IF ok THEN "quadrature" ELSE "return",
                          !.failed = ~ok, !.stage = @ + 1, !.feedback = Feedback(1)]
  /\ UNCHANGED <<setup, Report, Buffers, field>>

NodeEnd(ok) == /\ At("node")
               /\ context' = [context EXCEPT !.dt = SetTimestep(call.dt)]
               /\ call' = [call EXCEPT !.pc = IF ok THEN "quadrature" ELSE "return",
                                       !.failed = ~ok, !.stage = @ + 1,
                                       !.feedback = Feedback(1)]
               /\ UNCHANGED <<setup, Report, Buffers, field>>

QuadratureEnd == /\ At("quadrature") /\ call.stage = Nodes
                 /\ StoreResult
                 /\ call' = [call EXCEPT !.pc = "return", !.tried = call.step, !.made = 1,
                                         !.accepted = TRUE]
                 /\ UNCHANGED <<setup, Buffers, context>>
-------------------------------------------------------------------------------
\* etdrk4: snapshots, then drift mode.  A plan it cannot split or no memory for the
\* snapshots ends the step.
EtdBegin == /\ At("exponential")
            /\ context' = [context EXCEPT !.drift = @ + 1]
            /\ call' = [call EXCEPT !.pc = "stages", !.stage = 1]
            /\ UNCHANGED <<setup, Report, Buffers, field>>

EtdRefuses == /\ At("exponential")
              /\ call' = [call EXCEPT !.pc = "return", !.failed = TRUE]
              /\ UNCHANGED <<setup, Report, Buffers, context, field>>

Stage == etdrk4_step[call.stage]
InStages == At("stages") /\ call.stage <= Len(etdrk4_step)

\* etdrk4_apply_linear_flow and etdrk4_eval_nonlinear: the snapshots are restored, the
\* candidate written, the timestep and, for the second, the clock set.
StageBegin(d) == /\ InStages /\ Stage \in setup.plan
                 /\ IF Stage = "rest" THEN d = call.step ELSE d \in InnerDts
                 /\ field' = "stage"
                 /\ context' = [context EXCEPT !.dt = d, !.override = (Stage = "rest")]
                 /\ call' = [call EXCEPT !.pc = "stage"]
                 /\ UNCHANGED <<setup, Report, Buffers>>

\* Without operators of its kind a stage is copied.
StageSkip == /\ InStages /\ Stage \notin setup.plan
             /\ call' = [call EXCEPT !.stage = @ + 1]
             /\ UNCHANGED <<setup, Report, Buffers, context, field>>

\* A mutant: a failed stage returns past the label where drift mode is left.
StageEndReturns(ok) ==
  /\ At("stage")
  /\ context' = [context EXCEPT !.dt = SetTimestep(call.dt), !.override = FALSE]
  /\ call' = [call EXCEPT !.pc = IF ok THEN "stages" ELSE "return", !.failed = ~ok,
                          !.stage = @ + 1, !.feedback = Feedback(1)]
  /\ UNCHANGED <<setup, Report, Buffers, field>>

StageEnd(ok) == /\ At("stage")
                /\ context' = [context EXCEPT !.dt = SetTimestep(call.dt), !.override = FALSE]
                /\ call' = [call EXCEPT !.pc = IF ok THEN "stages" ELSE "cleanup",
                                        !.failed = ~ok, !.stage = @ + 1,
                                        !.feedback = Feedback(1)]
                /\ UNCHANGED <<setup, Report, Buffers, field>>

\* The label that a failure jumps to and a success falls through to: the timestep and
\* the clock, which the stages have given back already, and drift mode.
LeaveDrift == context' = [context EXCEPT !.dt = SetTimestep(call.dt), !.override = FALSE,
                                         !.drift = @ - 1]

\* A failure: the snapshots are freed, not restored.
Cleanup == /\ At("cleanup")
           /\ LeaveDrift
           /\ call' = [call EXCEPT !.pc = "return"]
           /\ UNCHANGED <<setup, Report, Buffers, field>>

EtdEnd == /\ At("stages") /\ call.stage > Len(etdrk4_step)
          /\ StoreResult
          /\ LeaveDrift
          /\ call' = [call EXCEPT !.pc = "return", !.tried = call.step, !.made = 1,
                                  !.accepted = TRUE]
          /\ UNCHANGED <<setup, Buffers>>
-------------------------------------------------------------------------------
\* The end of integrator_step_context: the time split operators have reported becomes
\* the last step.
Return == /\ At("return")
          /\ last' = IF call.feedback > 0 THEN [last EXCEPT !.step = call.feedback] ELSE last
          /\ context' = [context EXCEPT !.stepping = FALSE]
          /\ call' = NoCall
          /\ UNCHANGED <<setup, current_dt, Buffers, field>>

Running == \/ \E error \in Errors : Attempt(error)
           \/ \E n \in 1..Iterations, converged \in BOOLEAN : Iterate(n, converged)
           \/ \E n \in 1..(Iterations + 7) : AttemptFails(n)
           \/ Finish
           \/ \E d \in InnerDts : NodeBegin(d)
           \/ \E ok \in BOOLEAN : NodeEnd(ok)
           \/ QuadratureEnd
           \/ EtdBegin \/ EtdRefuses
           \/ \E d \in InnerDts \cup MinDt..MaxDt : StageBegin(d)
           \/ StageSkip
           \/ \E ok \in BOOLEAN : StageEnd(ok)
           \/ Cleanup \/ EtdEnd
           \/ Return

Calling == \E dt \in Requests :
             \/ \E t \in Targets : StepBegin(dt, t) \/ StepUnsupported(dt, t)
             \/ StepRefused(dt)
             \/ \E t \in Targets, i \in Failing : WorkspaceFails(dt, t, i)

Next == Calling \/ Running

\* A call runs on the caller's thread to its end.
Spec == Init /\ [][Next]_vars /\ WF_vars(Running)
-------------------------------------------------------------------------------
Loops == {"explicit", "implicit", "quadrature", "exponential"}
Pcs == Loops \cup {"idle", "finish", "node", "stages", "stage", "cleanup", "return"}

TypeOK == /\ setup \in Setups
          /\ current_dt \in Dts
          /\ last \in [step : Dts, attempts : Nat, rejections : Nat]
          /\ starved \in BOOLEAN
          /\ context \in [dt : Nat \ {0}, drift : 0..1, override : BOOLEAN, stepping : BOOLEAN]
          /\ field \in {"data", "stage", "result"}
          /\ call \in [pc : Pcs, dt : Dts, step : Dts, tried : Dts, made : Nat, stage : Nat,
                       accepted : BOOLEAN, error : Errors, feedback : Nat, failed : BOOLEAN,
                       target : Targets \cup {NoCall.target}]

InRange(d) == d \in MinDt..MaxDt

\* The retry of the implicit schemes, unlike integrator_reject_dt, does not check that
\* it is shorter: with a safety factor of two or more it is not.
Lengthens == Method.loop = "implicit" /\ setup.safety >= 40

\* An attempt is made with a step between the bounds, or with the NaN that an error
\* which is not a number has left as the suggestion, and then it is the first.
StepsInRange == At("explicit") \/ At("implicit") =>
                  \/ InRange(call.step)
                  \/ call.step = NaN /\ call.made = 0 /\ setup.adaptive
                  \/ Lengthens

\* In a complex field a result computed with a NaN for its timestep is never stored:
\* the attempt is rejected and the next one is made with the smallest step.  In a real
\* field it is stored, as its error is none; and subordination takes whatever timestep
\* it is asked for.
NaNStepDiscarded ==
  /\ At("return") /\ field = "result"
  /\ call.target.element_size = 2 /\ Method.loop # "quadrature"
  => call.tried # NaN

\* The step function reports the step that the field was advanced by, if the last
\* attempt was accepted.
AcceptedStepReported ==
  At("return") /\ ~call.failed /\ call.accepted => last.step = call.tried

\* However a step ends, the context has its clock back and is out of drift mode and of
\* the step.
ContextRestored == At("idle") => /\ context.drift = 0
                                 /\ ~context.override /\ ~context.stepping

\* The timestep that the nodes of subordination and the stages of etdrk4 set is the
\* caller's again when the step function returns, also after a failure.
TimestepRestored == At("return") \/ At("finish") => context.dt = SetTimestep(call.dt)

\* A step that fails leaves the field as it was, but for etdrk4, whose snapshots are
\* freed without being restored.
FailureKeepsField ==
  ~At("idle") /\ call.failed /\ field # "data" => Method.loop = "exponential" /\ field = "stage"

\* The buffers a scheme works on are large enough for its field, unless a hint made
\* the first longer than the field, or a resize has failed half-way before.
BuffersFit ==
  call.pc \notin {"idle", "return"} =>
    \/ Fits(workspace, Method.buffers, call.target.length, call.target.element_size)
    \/ \E t \in Targets : setup.hint > t.length
    \/ starved

\* A rejected step is retried with a smaller one.
RetriesAreShorter ==
  [][call.pc \in {"explicit", "implicit"} /\ call'.pc = call.pc =>
       call'.step < call.step \/ call.step = NaN \/ Lengthens]_vars

\* Every step returns.
StepReturns == ~At("idle") ~> At("idle")
================================================================================
