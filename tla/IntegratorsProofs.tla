-------------------------- MODULE IntegratorsProofs --------------------------
(***************************************************************************)
(* Proofs about the steps of the integrators, for any bounds on the        *)
(* timestep, any requests, safety factors, fields and plans, and any       *)
(* number of attempts, iterations and nodes.                               *)
(***************************************************************************)
EXTENDS Integrators, TLAPS

Staged == {"stages", "stage", "cleanup"}

\* The place of a call fits its scheme.
InLoop == /\ call.pc \in Loops => Method.loop = call.pc
          /\ At("finish") => Method.loop \in {"explicit", "implicit"}
          /\ At("node") => Method.loop = "quadrature"
          /\ call.pc \in Staged => Method.loop = "exponential"

\* What a call has borrowed from the context.
Lent == /\ context.drift = IF call.pc \in Staged THEN 1 ELSE 0
        /\ context.override => At("stage")
        /\ context.stepping => ~At("idle")
        /\ call.pc \notin {"idle", "node", "stage"} => context.dt = SetTimestep(call.dt)

\* A NaN is a suggestion of an explicit scheme with error control or what subordination
\* was asked for, and no attempt at a complex field leaves one for the end of the step.
NaNExcused(d) == d = NaN => \/ Method.loop = "explicit" /\ setup.adaptive
                            \/ Method.loop = "quadrature"
StepInv == /\ StepsInRange
           /\ NaNExcused(current_dt) /\ NaNExcused(call.step)
           /\ At("finish") => /\ call.made > 0
                              /\ call.target.element_size = 2 => call.tried # NaN
                              /\ call.accepted => call.step = call.tried

\* What the field holds and what has been said about it.
ResultInv == /\ call.pc \notin {"idle", "return"} => field # "result"
             /\ ~At("idle") /\ field = "stage" => Method.loop = "exponential"
             /\ call.failed => call.pc \in {"return", "cleanup"}
             /\ At("cleanup") => call.failed
             /\ At("return") /\ call.failed => field # "result"
             /\ NaNStepDiscarded /\ AcceptedStepReported

IInv == TypeOK /\ InLoop /\ Lent /\ StepInv /\ ResultInv
-------------------------------------------------------------------------------
\* Step sizes.
LEMMA ClampRange ==
  ASSUME NEW d \in Nat
  PROVE  integrator_clamp_dt(d) \in MinDt..MaxDt /\ (d >= MinDt => integrator_clamp_dt(d) <= d)
BY DtAssumption DEF integrator_clamp_dt, NaN

LEMMA ClampTyped ==
  ASSUME NEW d \in Dts
  PROVE  /\ integrator_clamp_dt(d) \in Dts
         /\ integrator_clamp_dt(d) = NaN <=> d = NaN
         /\ d # NaN => integrator_clamp_dt(d) \in MinDt..MaxDt
BY DtAssumption DEF integrator_clamp_dt, NaN, Dts

LEMMA Product ==
  ASSUME NEW a \in Nat, NEW b \in Nat
  PROVE  a * b \in Nat
OBVIOUS

LEMMA ScaledNat ==
  ASSUME NEW d \in Nat, NEW f \in Nat
  PROVE  Scaled(d, f) \in Nat /\ Halved(d, f) \in Nat
<1>1. f * d \in Nat
  BY Product
<1>2. \A x \in Nat : x \div 20 \in Nat /\ x \div 40 \in Nat
  OBVIOUS
<1> QED BY <1>1, <1>2 DEF Scaled, Halved

LEMMA HalvedShorter ==
  ASSUME NEW d \in Nat \ {0}, NEW f \in Nat, f < 40
  PROVE  Halved(d, f) < d
<1>1. f * d <= 39 * d /\ f * d \in Nat
  BY Product
<1>2. \A x \in Nat : x <= 39 * d => x \div 40 < d
  OBVIOUS
<1> QED BY <1>1, <1>2 DEF Halved

LEMMA SuggestTyped ==
  ASSUME NEW d \in Dts, NEW error \in Errors, NEW adaptive \in BOOLEAN, NEW safety \in Nat,
         NEW s \in integrator_suggest_dt(d, error, adaptive, safety)
  PROVE  s \in Dts /\ (s = NaN => d = NaN \/ adaptive)
<1>1. CASE ~adaptive
  BY <1>1, ClampTyped DEF integrator_suggest_dt
<1>2. CASE adaptive /\ (error = "nan" \/ d = NaN)
  BY <1>2 DEF integrator_suggest_dt, Dts
<1>3. CASE adaptive /\ ~(error = "nan" \/ d = NaN)
  <2>1. d \in Nat /\ AtTolerance(safety) \in Nat /\ Growth \in Nat /\ Shrink \in Nat
    BY <1>3 DEF Dts, AtTolerance, Growth, Shrink
  <2>2. /\ Scaled(d, AtTolerance(safety)) \in Nat
        /\ Scaled(d, Growth) \in Nat /\ Scaled(d, Shrink) \in Nat
    BY <2>1, ScaledNat
  <2>3. PICK x \in Nat : s = integrator_clamp_dt(x)
    BY <1>3, <2>2 DEF integrator_suggest_dt
  <2> QED BY <1>3, <2>3, ClampTyped DEF Dts
<1> QED BY <1>1, <1>2, <1>3

LEMMA RejectRange ==
  ASSUME NEW d \in Dts, NEW s \in Dts, NEW safety \in Nat
  PROVE  /\ integrator_reject_dt(d, s, safety) \in MinDt..MaxDt
         /\ d > MinDt => integrator_reject_dt(d, s, safety) < d
<1> DEFINE half == d \div 2
           halved == Halved(d, safety)
           fallback == IF halved \in 1..(d - 1) THEN halved ELSE half
           smaller == IF AtMost(1, s) /\ Above(d, s) THEN s ELSE fallback
           bounded == Max(MinDt, smaller)
           chosen == IF bounded >= d THEN Max(MinDt, half) ELSE bounded
<1>1. CASE ~Above(d, MinDt)
  <2>1. integrator_reject_dt(d, s, safety) = MinDt
    BY <1>1 DEF integrator_reject_dt
  <2>2. ~(d > MinDt)
    BY <1>1, DtAssumption DEF Above, Dts, NaN
  <2> QED BY <2>1, <2>2, DtAssumption
<1>2. CASE Above(d, MinDt)
  <2>1. d \in Nat /\ d > MinDt /\ MinDt \in Nat \ {0}
    BY <1>2, DtAssumption DEF Above, Dts, NaN
  <2>2. half \in Nat /\ half < d
    BY <2>1
  <2>3. halved \in Nat
    BY <2>1, ScaledNat
  <2> HIDE DEF half, halved
  <2>4. fallback \in Nat /\ fallback < d
    BY <2>1, <2>2, <2>3
  <2> HIDE DEF fallback
  <2>5. smaller \in Nat /\ smaller < d
    BY <2>1, <2>4 DEF AtMost, Above, Dts, NaN
  <2> HIDE DEF smaller
  <2>6. bounded \in Nat /\ bounded < d /\ bounded >= MinDt
    BY <2>1, <2>5 DEF Max
  <2> HIDE DEF bounded
  <2>7. chosen = bounded
    BY <2>1, <2>6
  <2>8. integrator_reject_dt(d, s, safety) = integrator_clamp_dt(chosen)
    BY <1>2 DEF integrator_reject_dt, half, halved, fallback, smaller, bounded
  <2> QED BY <2>1, <2>6, <2>7, <2>8, ClampRange, DtAssumption
<1> QED BY <1>1, <1>2
-------------------------------------------------------------------------------
\* Schemes.
Fitting(m) == /\ m.loop \in Loops
              /\ m.buffers \in Nat /\ m.drifts \in Nat /\ m.estimates \in Nat
              /\ m.eager \in BOOLEAN
              /\ m.suggests \in {"always", "accepted"} => m.loop = "explicit"

LEMMA Schemes ==
  ASSUME NEW k \in DOMAIN Methods
  PROVE  Fitting(Methods[k])
<1> USE DEF Scheme, Loops, Fitting
<1>1. /\ Fitting(euler) /\ Fitting(heun) /\ Fitting(rk4)
      /\ Fitting(integrator_rkf45_create)
  BY DEF euler, heun, rk4, integrator_rkf45_create, rkf45_step
<1>2. /\ Fitting(backward_euler) /\ Fitting(crank_nicolson)
      /\ Fitting(integrator_etdrk4_create) /\ Fitting(subordination)
  BY DEF backward_euler, crank_nicolson, integrator_etdrk4_create, etdrk4_buffers, subordination
<1> HIDE DEF Fitting
<1>3. Methods[k] \in {euler, heun, rk4, integrator_rkf45_create, backward_euler, crank_nicolson,
                      integrator_etdrk4_create, subordination}
  BY DEF Methods
<1> QED BY <1>1, <1>2, <1>3

Calls == [pc : Pcs, dt : Dts, step : Dts, tried : Dts, made : Nat, stage : Nat,
          accepted : BOOLEAN, error : Errors, feedback : Nat, failed : BOOLEAN,
          target : Targets \cup {NoCall.target}]
Contexts == [dt : Nat \ {0}, drift : 0..1, override : BOOLEAN, stepping : BOOLEAN]

LEMMA Typed ==
  ASSUME TypeOK
  PROVE  /\ Fitting(Method) /\ setup.adaptive \in BOOLEAN /\ setup.safety \in Nat
         /\ call \in Calls /\ context \in Contexts
         /\ current_dt \in Dts
<1>1. setup.method \in DOMAIN Methods /\ setup.adaptive \in BOOLEAN /\ setup.safety \in Safeties
  BY DEF TypeOK, Setups
<1>2. Fitting(Method)
  BY <1>1, Schemes DEF Method
<1> QED BY <1>1, <1>2, IntegratorAssumption DEF TypeOK, Calls, Contexts

LEMMA NoCallTyped == NoCall \in Calls /\ NoCall.pc = "idle" /\ NoCall.step = 0 /\ ~NoCall.failed
BY DEF NoCall, Calls, Pcs, Errors, Dts

LEMMA TimestepTyped ==
  ASSUME NEW d \in Dts
  PROVE  SetTimestep(d) \in Nat \ {0}
BY IntegratorAssumption DEF SetTimestep, Dts, NaN

LEMMA FeedbackTyped ==
  ASSUME TypeOK, NEW n \in Nat
  PROVE  Feedback(n) \in Nat
<1>1. call.feedback \in Nat /\ context.dt \in Nat
  BY DEF TypeOK
<1>2. n * context.dt \in Nat
  BY <1>1, Product
<1> QED BY <1>1, <1>2 DEF Feedback

LEMMA FirstStepTyped ==
  ASSUME IInv, NEW dt \in Dts
  PROVE  /\ FirstStep(dt) \in Dts /\ NaNExcused(FirstStep(dt))
         /\ Method.loop # "quadrature" /\ FirstStep(dt) # NaN => InRange(FirstStep(dt))
<1>1. current_dt \in Dts /\ NaNExcused(current_dt)
  BY Typed DEF IInv, StepInv
<1>2. CASE Method.loop = "quadrature"
  BY <1>2 DEF FirstStep, NaNExcused
<1>3. CASE Method.loop # "quadrature"
  <2>1. PICK d \in Dts : /\ FirstStep(dt) = integrator_clamp_dt(d)
                         /\ (d = dt /\ dt > 0) \/ d = current_dt
    BY <1>1, <1>3 DEF FirstStep
  <2>2. dt > 0 => dt # NaN
    BY DEF NaN
  <2> QED BY <1>1, <2>1, <2>2, ClampTyped DEF NaNExcused, InRange
<1> QED BY <1>2, <1>3
-------------------------------------------------------------------------------
\* Calls that begin.
LEMMA StepBeginStep ==
  ASSUME IInv, NEW dt \in Requests, NEW t \in Targets, StepBegin(dt, t)
  PROVE  IInv'
<1>1. /\ Fitting(Method) /\ call \in Calls /\ context \in Contexts /\ dt \in Dts
  BY Typed, IntegratorAssumption DEF IInv
<1>2. setup' = setup /\ Method' = Method /\ last' = last /\ starved' = starved /\ field' = "data"
  BY DEF StepBegin, Method
<1>3. /\ FirstStep(dt) \in Dts /\ NaNExcused(FirstStep(dt))
      /\ Method.loop # "quadrature" /\ FirstStep(dt) # NaN => InRange(FirstStep(dt))
  BY <1>1, FirstStepTyped
<1>4. /\ call' = [NoCall EXCEPT !.pc = Method.loop, !.dt = dt, !.step = FirstStep(dt), !.target = t]
      /\ call'.pc = Method.loop /\ call'.dt = dt /\ call'.step = FirstStep(dt) /\ call'.made = 0
      /\ ~call'.failed
      /\ call' \in Calls
  BY <1>1, <1>3 DEF StepBegin, NoCall, Calls, Fitting, Pcs, Errors, Dts, Loops
<1>5. /\ context' \in Contexts /\ context'.dt = SetTimestep(dt)
      /\ context'.drift = context.drift /\ context'.override = context.override
  BY <1>1, TimestepTyped DEF StepBegin, Contexts
<1>6. current_dt' \in Dts /\ (NaNExcused(current_dt))'
  BY <1>2, <1>3, Typed DEF StepBegin, IInv, StepInv, NaNExcused
<1>7. TypeOK'
  BY <1>2, <1>4, <1>5, <1>6 DEF IInv, TypeOK, Calls, Contexts
<1>8. InLoop'
  BY <1>1, <1>2, <1>4 DEF InLoop, At, Fitting, Loops, Staged
<1>9. Lent'
  BY <1>1, <1>4, <1>5 DEF StepBegin, IInv, Lent, At, Fitting, Loops, Staged, SetTimestep
<1>10. StepInv'
  BY <1>1, <1>2, <1>3, <1>4, <1>6 DEF StepInv, StepsInRange, NaNExcused, At, Fitting, Loops, InRange
<1>11. ResultInv'
  BY <1>1, <1>2, <1>4 DEF ResultInv, NaNStepDiscarded, AcceptedStepReported, At, Fitting, Loops
<1> QED BY <1>7, <1>8, <1>9, <1>10, <1>11 DEF IInv

LEMMA BeginFailsStep ==
  ASSUME IInv, NEW dt \in Requests, NEW t \in Targets,
         /\ At("idle")
         /\ context' = [context EXCEPT !.stepping = TRUE, !.dt = SetTimestep(dt)]
         /\ call' = [NoCall EXCEPT !.pc = "return", !.dt = dt, !.failed = TRUE, !.target = t]
         /\ field' = "data"
         /\ UNCHANGED <<setup, Report>>,
         starved' \in BOOLEAN
  PROVE  IInv'
<1>1. call \in Calls /\ context \in Contexts /\ dt \in Dts
  BY Typed, IntegratorAssumption DEF IInv
<1>2. setup' = setup /\ Method' = Method /\ last' = last /\ current_dt' = current_dt
  BY DEF Method, Report
<1>3. /\ call'.pc = "return" /\ call'.dt = dt /\ call'.step = 0 /\ call'.failed /\ call' \in Calls
  BY <1>1 DEF NoCall, Calls, Pcs, Errors, Dts
<1>4. /\ context' \in Contexts /\ context'.dt = SetTimestep(dt)
      /\ context'.drift = context.drift /\ context'.override = context.override
  BY <1>1, TimestepTyped DEF Contexts
<1>5. TypeOK'
  BY <1>2, <1>3, <1>4 DEF IInv, TypeOK, Calls, Contexts
<1>6. InLoop'
  BY <1>3 DEF InLoop, At, Loops, Staged
<1>7. Lent'
  BY <1>1, <1>3, <1>4 DEF IInv, Lent, At, Staged, SetTimestep
<1>8. StepInv'
  BY <1>2, <1>3 DEF IInv, StepInv, StepsInRange, NaNExcused, At, NaN
<1>9. ResultInv'
  BY <1>3 DEF ResultInv, NaNStepDiscarded, AcceptedStepReported, At
<1> QED BY <1>5, <1>6, <1>7, <1>8, <1>9 DEF IInv

LEMMA RefusedStep ==
  ASSUME IInv, NEW dt \in Requests, StepRefused(dt)
  PROVE  IInv'
<1>1. call \in Calls /\ context \in Contexts /\ dt \in Dts
  BY Typed, IntegratorAssumption DEF IInv
<1>2. /\ setup' = setup /\ Method' = Method /\ last' = last /\ current_dt' = current_dt
      /\ starved' = starved /\ field' = field /\ call' = call
  BY DEF StepRefused, Method, Report, Buffers
<1>3. /\ context' \in Contexts
      /\ context'.drift = context.drift /\ context'.override = context.override
      /\ context'.stepping = context.stepping
  BY <1>1, TimestepTyped DEF StepRefused, Contexts
<1>4. TypeOK'
  BY <1>2, <1>3 DEF IInv, TypeOK, Contexts
<1>5. InLoop' /\ StepInv' /\ ResultInv'
  BY <1>2 DEF IInv, InLoop, StepInv, StepsInRange, Lengthens, NaNExcused, ResultInv,
              NaNStepDiscarded, AcceptedStepReported, At
<1>6. Lent'
  BY <1>2, <1>3 DEF StepRefused, IInv, Lent, At
<1> QED BY <1>4, <1>5, <1>6 DEF IInv
-------------------------------------------------------------------------------
\* Attempts.
LEMMA AttemptStep ==
  ASSUME IInv, NEW error \in Errors, Attempt(error)
  PROVE  IInv'
<1>1. /\ Fitting(Method) /\ call \in Calls /\ setup.adaptive \in BOOLEAN /\ setup.safety \in Nat
      /\ current_dt \in Dts /\ TypeOK
      /\ call.pc = "explicit" /\ Method.loop = "explicit" /\ error \in Estimates
  BY Typed DEF IInv, Attempt, At, InLoop, Loops
<1>2. /\ setup' = setup /\ Method' = Method /\ last' = last /\ starved' = starved
      /\ field' = field /\ context' = context
  BY DEF Attempt, Method, Buffers
<1>3. /\ Tried(error) \in Calls
      /\ Tried(error).pc = call.pc /\ Tried(error).dt = call.dt
      /\ Tried(error).step = call.step /\ Tried(error).tried = call.step
      /\ Tried(error).made = call.made + 1 /\ Tried(error).accepted = Accepts(error)
      /\ Tried(error).failed = call.failed /\ Tried(error).target = call.target
  <2>1. PICK n \in Nat : n = Method.drifts + IF setup.adaptive THEN Method.estimates ELSE 0
    BY <1>1 DEF Fitting
  <2>2. PICK f \in Nat : f = Feedback(n)
    BY <1>1, FeedbackTyped
  <2>3. PICK b \in BOOLEAN : b = Accepts(error)
    BY <1>1 DEF Accepts, AtMost
  <2>4. PICK m \in Nat : m = call.made + 1
    BY <1>1 DEF Calls
  <2>5. Tried(error) = [call EXCEPT !.tried = call.step, !.made = m, !.error = error,
                                    !.accepted = b, !.feedback = f]
    BY <2>1, <2>2, <2>3, <2>4 DEF Tried
  <2> QED BY <1>1, <2>3, <2>4, <2>5 DEF Calls
<1>4. CASE Accepts(error)
  <2>1. call.target.element_size = 2 => call.step # NaN
    <3>1. SUFFICES ASSUME call.target.element_size = 2, call.step = NaN
                   PROVE  FALSE
      OBVIOUS
    <3>2. setup.adaptive
      BY <1>1, <3>1 DEF IInv, StepInv, NaNExcused
    <3>3. error = "nan"
      BY <1>1, <3>1, <3>2 DEF Estimates
    <3> QED BY <1>4, <3>1, <3>2, <3>3 DEF Accepts, AtMost
  <2>2. call' = [Tried(error) EXCEPT !.pc = "finish"] /\ current_dt' = current_dt
    BY <1>4 DEF Attempt
  <2>3. /\ call' \in Calls /\ call'.pc = "finish" /\ call'.dt = call.dt
        /\ call'.step = call.step /\ call'.tried = call.step /\ call'.made = call.made + 1
        /\ call'.failed = call.failed /\ call'.target = call.target
    BY <1>3, <2>2 DEF Calls, Pcs
  <2>4. TypeOK'
    BY <1>2, <2>2, <2>3 DEF IInv, TypeOK, Calls
  <2>5. InLoop' /\ Lent'
    BY <1>1, <1>2, <2>3 DEF IInv, InLoop, Lent, At, Loops, Staged, SetTimestep
  <2>6. StepInv'
    BY <1>1, <1>2, <2>1, <2>2, <2>3 DEF IInv, StepInv, StepsInRange, NaNExcused, At, Calls
  <2>7. ResultInv'
    BY <1>1, <1>2, <2>3 DEF IInv, ResultInv, NaNStepDiscarded, AcceptedStepReported, At
  <2> QED BY <2>4, <2>5, <2>6, <2>7 DEF IInv
<1>5. CASE ~Accepts(error)
  <2>1. PICK s \in integrator_suggest_dt(call.step, error, TRUE, setup.safety) :
          LET smaller == integrator_reject_dt(call.step, s, setup.safety)
          IN /\ call' = [Tried(error) EXCEPT !.step = smaller,
                            !.pc = IF LastAttempt THEN "finish" ELSE "explicit"]
             /\ current_dt' = IF Method.eager THEN smaller ELSE current_dt
    BY <1>5 DEF Attempt
  <2>2. s \in Dts
    BY <1>1, SuggestTyped DEF Calls
  <2>3. PICK d \in Nat : d = integrator_reject_dt(call.step, s, setup.safety) /\ InRange(d)
    <3>1. integrator_reject_dt(call.step, s, setup.safety) \in MinDt..MaxDt
      BY <1>1, <2>2, RejectRange DEF Calls
    <3> QED BY <3>1, DtAssumption DEF InRange
  <2>4. /\ call' = [Tried(error) EXCEPT !.step = d,
                            !.pc = IF LastAttempt THEN "finish" ELSE "explicit"]
        /\ current_dt' = d \/ current_dt' = current_dt
    BY <2>1, <2>3
  <2>5. /\ call' \in Calls /\ call'.pc = (IF LastAttempt THEN "finish" ELSE "explicit")
        /\ call'.dt = call.dt /\ call'.step = d /\ call'.tried = call.step
        /\ call'.made = call.made + 1 /\ ~call'.accepted /\ call'.failed = call.failed
    BY <1>3, <1>5, <2>4 DEF Calls, Pcs, Loops, Dts
  <2>6. call'.pc = "finish" => call.step # NaN
    <3>1. MaxAttempts["explicit"] > 1 /\ MaxAttempts["explicit"] \in Nat
      BY IntegratorAssumption
    <3>2. LastAttempt => call.made > 0
      BY <1>1, <3>1 DEF LastAttempt, Calls
    <3>3. call.made > 0 => call.step # NaN
      BY <1>1, DtAssumption DEF IInv, StepInv, StepsInRange, At, InRange, Lengthens, NaN
    <3> QED BY <2>5, <3>2, <3>3
  <2>7. d # NaN
    BY DEF NaN
  <2>8. TypeOK'
    BY <1>1, <1>2, <2>4, <2>5 DEF IInv, TypeOK, Calls, Dts
  <2>9. InLoop' /\ Lent'
    BY <1>1, <1>2, <2>5 DEF IInv, InLoop, Lent, At, Loops, Staged, SetTimestep
  <2>10. StepInv'
    BY <1>1, <1>2, <2>3, <2>4, <2>5, <2>6, <2>7
       DEF IInv, StepInv, StepsInRange, NaNExcused, At, Calls, InRange
  <2>11. ResultInv'
    BY <1>1, <1>2, <2>5 DEF IInv, ResultInv, NaNStepDiscarded, AcceptedStepReported, At
  <2> QED BY <2>8, <2>9, <2>10, <2>11 DEF IInv
<1> QED BY <1>4, <1>5

LEMMA IterateStep ==
  ASSUME IInv, NEW n \in 1..Iterations, NEW converged \in BOOLEAN, Iterate(n, converged)
  PROVE  IInv'
<1>1. /\ Fitting(Method) /\ call \in Calls /\ setup.adaptive \in BOOLEAN /\ setup.safety \in Nat
      /\ TypeOK /\ n + 1 \in Nat
      /\ call.pc = "implicit" /\ Method.loop = "implicit"
  BY Typed, IntegratorAssumption DEF IInv, Iterate, At, InLoop, Loops
<1>2. /\ setup' = setup /\ Method' = Method /\ last' = last /\ starved' = starved
      /\ field' = field /\ context' = context /\ current_dt' = current_dt
  BY DEF Iterate, Method, Buffers, Report
<1>3. call.step \in Nat /\ call.step # NaN
  BY <1>1 DEF IInv, StepInv, NaNExcused, Calls, Dts
<1> DEFINE tried == [call EXCEPT !.tried = call.step, !.made = @ + 1, !.accepted = converged,
                                 !.feedback = Feedback(n + 1)]
           shorter == Max(MinDt, Halved(call.step, setup.safety))
<1>4. /\ tried \in Calls /\ tried.pc = call.pc /\ tried.dt = call.dt
      /\ tried.step = call.step /\ tried.tried = call.step /\ tried.made = call.made + 1
      /\ tried.accepted = converged /\ tried.failed = call.failed
  <2>1. PICK f \in Nat : f = Feedback(n + 1)
    BY <1>1, FeedbackTyped
  <2>2. PICK m \in Nat : m = call.made + 1
    BY <1>1 DEF Calls
  <2>3. tried = [call EXCEPT !.tried = call.step, !.made = m, !.accepted = converged,
                             !.feedback = f]
    BY <2>1, <2>2
  <2> HIDE DEF tried
  <2> QED BY <1>1, <2>2, <2>3 DEF Calls
<1>5. shorter \in Nat /\ shorter >= MinDt
  <2>1. PICK h \in Nat : h = Halved(call.step, setup.safety)
    BY <1>1, <1>3, ScaledNat
  <2> QED BY <2>1, DtAssumption DEF Max
<1>6. /\ call' = IF converged \/ Gives THEN [tried EXCEPT !.pc = "finish"]
                 ELSE [tried EXCEPT !.step = shorter,
                                    !.pc = IF LastAttempt THEN "finish" ELSE "implicit"]
  BY DEF Iterate
<1>7. ~(converged \/ Gives) /\ ~Lengthens => InRange(shorter)
  <2>1. SUFFICES ASSUME ~(converged \/ Gives), ~Lengthens
                 PROVE  InRange(shorter)
    OBVIOUS
  <2>2. InRange(call.step)
    BY <1>1, <1>3, <2>1 DEF IInv, StepInv, StepsInRange, At
  <2>3. Halved(call.step, setup.safety) < call.step
    BY <1>1, <1>3, <2>1, <2>2, HalvedShorter, DtAssumption DEF Lengthens, InRange
  <2>4. Halved(call.step, setup.safety) \in Nat
    BY <1>1, <1>3, ScaledNat
  <2> QED BY <2>2, <2>3, <2>4, DtAssumption DEF InRange, Max
<1> HIDE DEF tried, shorter
<1>8. /\ call' \in Calls /\ call'.pc \in {"finish", "implicit"} /\ call'.dt = call.dt
      /\ call'.tried = call.step /\ call'.made = call.made + 1
      /\ call'.accepted = converged /\ call'.failed = call.failed
      /\ call'.step \in {call.step, shorter}
      /\ converged => call'.step = call.step /\ call'.pc = "finish"
      /\ call'.pc = "implicit" => ~(converged \/ Gives) /\ call'.step = shorter
  <2>1. CASE converged \/ Gives
    BY <1>1, <1>4, <1>6, <2>1 DEF Calls, Pcs, Loops
  <2>2. CASE ~(converged \/ Gives)
    BY <1>1, <1>4, <1>5, <1>6, <2>2 DEF Calls, Pcs, Loops, Dts
  <2> QED BY <2>1, <2>2
<1>9. call'.step # NaN
  BY <1>3, <1>5, <1>8 DEF NaN
<1>10. TypeOK'
  BY <1>1, <1>2, <1>8 DEF IInv, TypeOK, Calls
<1>11. InLoop' /\ Lent'
  BY <1>1, <1>2, <1>8 DEF IInv, InLoop, Lent, At, Loops, Staged, SetTimestep
<1>12. StepInv'
  BY <1>1, <1>2, <1>3, <1>7, <1>8, <1>9
     DEF IInv, StepInv, StepsInRange, Lengthens, NaNExcused, At, Calls
<1>13. ResultInv'
  BY <1>1, <1>2, <1>8 DEF IInv, ResultInv, NaNStepDiscarded, AcceptedStepReported, At
<1> QED BY <1>10, <1>11, <1>12, <1>13 DEF IInv

LEMMA AttemptFailsStep ==
  ASSUME IInv, NEW n \in Nat, AttemptFails(n)
  PROVE  IInv'
<1>1. /\ call \in Calls /\ Feedback(n) \in Nat
      /\ call.pc \in {"explicit", "implicit"}
  BY Typed, FeedbackTyped DEF IInv, AttemptFails, At
<1>2. /\ setup' = setup /\ Method' = Method /\ last' = last /\ starved' = starved
      /\ field' = field /\ context' = context /\ current_dt' = current_dt
  BY DEF AttemptFails, Method, Buffers, Report
<1>3. /\ call' \in Calls /\ call'.pc = "return" /\ call'.failed /\ call'.dt = call.dt
      /\ call'.step = call.step
  BY <1>1 DEF AttemptFails, Calls, Pcs
<1>4. TypeOK'
  BY <1>2, <1>3 DEF IInv, TypeOK, Calls
<1>5. InLoop' /\ Lent'
  BY <1>1, <1>2, <1>3 DEF IInv, InLoop, Lent, At, Loops, Staged, SetTimestep
<1>6. StepInv'
  BY <1>2, <1>3 DEF IInv, StepInv, StepsInRange, NaNExcused, At
<1>7. ResultInv'
  BY <1>1, <1>2, <1>3 DEF IInv, ResultInv, NaNStepDiscarded, AcceptedStepReported, At
<1> QED BY <1>4, <1>5, <1>6, <1>7 DEF IInv

LEMMA FinishStep ==
  ASSUME IInv, Finish
  PROVE  IInv'
<1>1. /\ Fitting(Method) /\ call \in Calls /\ setup.adaptive \in BOOLEAN /\ setup.safety \in Nat
      /\ call.pc = "finish" /\ Method.loop \in {"explicit", "implicit"}
      /\ call.target.element_size = 2 => call.tried # NaN
      /\ call.made > 0
      /\ NaNExcused(call.step)
  BY Typed DEF IInv, Finish, At, InLoop, StepInv
<1>2. /\ setup' = setup /\ Method' = Method /\ starved' = starved /\ context' = context
      /\ field' = "result"
  BY DEF Finish, Method, Buffers
<1>3. /\ call' \in Calls /\ call'.pc = "return" /\ call'.dt = call.dt
      /\ call'.step = call.step /\ call'.tried = call.tried /\ call'.target = call.target
      /\ call'.accepted = call.accepted /\ call'.failed = call.failed
  BY <1>1 DEF Finish, Calls, Pcs
<1>4. current_dt' \in Dts /\ (current_dt' = NaN => Method.loop = "explicit" /\ setup.adaptive)
  <2>1. current_dt' \in NextSuggestions /\ call.step \in Dts /\ call.error \in Errors
    BY <1>1 DEF Finish, Calls
  <2>2. CASE /\ Method.suggests \in {"always", "accepted"}
             /\ current_dt' \in integrator_suggest_dt(call.step, call.error, setup.adaptive,
                                                       setup.safety)
    <3>1. PICK s \in integrator_suggest_dt(call.step, call.error, setup.adaptive,
                                           setup.safety) : current_dt' = s
      BY <2>2
    <3>2. s \in Dts /\ (s = NaN => call.step = NaN \/ setup.adaptive)
      BY <1>1, <2>1, SuggestTyped
    <3> QED BY <1>1, <2>2, <3>1, <3>2 DEF Fitting, NaNExcused
  <2>3. CASE current_dt' = integrator_clamp_dt(call.step)
    BY <1>1, <2>1, <2>3, ClampTyped DEF NaNExcused
  <2> QED BY <2>1, <2>2, <2>3 DEF NextSuggestions
<1>5. last' \in [step : Dts, attempts : Nat, rejections : Nat] /\ last'.step = call.step
  <2>1. AttemptsReported \in Nat /\ AttemptsReported > 0
    BY <1>1, IntegratorAssumption DEF AttemptsReported, Calls
  <2>2. AttemptsReported - 1 \in Nat
    BY <2>1
  <2> QED BY <1>1, <2>1, <2>2 DEF Finish, Calls
<1>6. TypeOK'
  BY <1>2, <1>3, <1>4, <1>5 DEF IInv, TypeOK, Calls
<1>7. InLoop' /\ Lent'
  BY <1>1, <1>2, <1>3 DEF IInv, InLoop, Lent, At, Loops, Staged, SetTimestep
<1>8. StepInv'
  BY <1>1, <1>2, <1>3, <1>4 DEF StepInv, StepsInRange, NaNExcused, At
<1>9. ResultInv'
  BY <1>1, <1>2, <1>3, <1>5 DEF IInv, StepInv, ResultInv, NaNStepDiscarded,
                                AcceptedStepReported, At
<1> QED BY <1>6, <1>7, <1>8, <1>9 DEF IInv
-------------------------------------------------------------------------------
\* The nodes of subordination and the stages of etdrk4.
LEMMA NodeBeginStep ==
  ASSUME IInv, NEW d \in InnerDts, NodeBegin(d)
  PROVE  IInv'
<1>1. /\ call \in Calls /\ context \in Contexts /\ Method.loop = "quadrature"
      /\ call.pc = "quadrature" /\ d \in Nat \ {0}
  BY Typed, IntegratorAssumption DEF IInv, NodeBegin, At, InLoop, Loops, Staged
<1>2. /\ setup' = setup /\ Method' = Method /\ last' = last /\ starved' = starved
      /\ current_dt' = current_dt
      /\ field' = field
  BY DEF NodeBegin, Method, Buffers, Report
<1>3. /\ call' \in Calls /\ call'.dt = call.dt /\ call'.step = call.step
      /\ call'.pc = "node" /\ ~call'.failed
  BY <1>1 DEF IInv, NodeBegin, Calls, Pcs, ResultInv, At
<1>4. /\ context' \in Contexts /\ context'.stepping = context.stepping
      /\ context'.drift = context.drift /\ context'.override = context.override
  BY <1>1, TimestepTyped DEF IInv, NodeBegin, Contexts, Calls, Lent, At, Staged
<1>5. TypeOK'
  BY <1>2, <1>3, <1>4 DEF IInv, TypeOK, Calls, Contexts
<1>6. InLoop' /\ Lent'
  BY <1>1, <1>2, <1>3, <1>4 DEF IInv, InLoop, Lent, At, Loops, Staged, SetTimestep
<1>7. StepInv'
  BY <1>1, <1>2, <1>3 DEF IInv, StepInv, StepsInRange, NaNExcused, At
<1>8. ResultInv'
  BY <1>1, <1>2, <1>3 DEF IInv, ResultInv, NaNStepDiscarded, AcceptedStepReported, At
<1> QED BY <1>5, <1>6, <1>7, <1>8 DEF IInv

LEMMA NodeEndStep ==
  ASSUME IInv, NEW ok \in BOOLEAN, NodeEnd(ok)
  PROVE  IInv'
<1>1. /\ call \in Calls /\ context \in Contexts /\ Method.loop = "quadrature"
      /\ call.pc = "node" /\ Feedback(1) \in Nat
  BY Typed, FeedbackTyped DEF IInv, NodeEnd, At, InLoop, Loops, Staged
<1>2. /\ setup' = setup /\ Method' = Method /\ last' = last /\ starved' = starved
      /\ current_dt' = current_dt
      /\ field' = field
  BY DEF NodeEnd, Method, Buffers, Report
<1>3. /\ call' \in Calls /\ call'.dt = call.dt /\ call'.step = call.step
      /\ call'.pc = (IF ok THEN "quadrature" ELSE "return")
      /\ call'.failed = ~ok
  <2>1. PICK f \in Nat, m \in Nat : f = Feedback(1) /\ m = call.stage + 1
    BY <1>1 DEF Calls
  <2>2. call' = [call EXCEPT !.pc = IF ok THEN "quadrature" ELSE "return", !.failed = ~ok,
                             !.stage = m, !.feedback = f]
    BY <2>1 DEF NodeEnd
  <2> QED BY <1>1, <2>1, <2>2 DEF Calls, Pcs, Loops
<1>4. /\ context' \in Contexts /\ context'.stepping = context.stepping
      /\ context'.drift = context.drift /\ context'.override = context.override
      /\ context'.dt = SetTimestep(call.dt)
  BY <1>1, TimestepTyped DEF IInv, NodeEnd, Contexts, Calls, Lent, At, Staged
<1>5. TypeOK'
  BY <1>2, <1>3, <1>4 DEF IInv, TypeOK, Calls, Contexts
<1>6. InLoop' /\ Lent'
  BY <1>1, <1>2, <1>3, <1>4 DEF IInv, InLoop, Lent, At, Loops, Staged, SetTimestep
<1>7. StepInv'
  BY <1>1, <1>2, <1>3 DEF IInv, StepInv, StepsInRange, NaNExcused, At
<1>8. ResultInv'
  BY <1>1, <1>2, <1>3 DEF IInv, ResultInv, NaNStepDiscarded, AcceptedStepReported, At
<1> QED BY <1>5, <1>6, <1>7, <1>8 DEF IInv

LEMMA EtdBeginStep ==
  ASSUME IInv, EtdBegin
  PROVE  IInv'
<1>1. /\ call \in Calls /\ context \in Contexts /\ Method.loop = "exponential"
      /\ call.pc = "exponential"
  BY Typed DEF IInv, EtdBegin, At, InLoop, Loops, Staged
<1>2. /\ setup' = setup /\ Method' = Method /\ last' = last /\ starved' = starved
      /\ current_dt' = current_dt
      /\ field' = field
  BY DEF EtdBegin, Method, Buffers, Report
<1>3. /\ call' \in Calls /\ call'.dt = call.dt /\ call'.step = call.step
      /\ call'.pc = "stages" /\ ~call'.failed
  BY <1>1 DEF IInv, EtdBegin, Calls, Pcs, ResultInv, At
<1>4. /\ context' \in Contexts /\ context'.stepping = context.stepping
      /\ context'.drift = 1 /\ ~context'.override /\ context'.dt = context.dt
  BY <1>1, TimestepTyped DEF IInv, EtdBegin, Contexts, Calls, Lent, At, Staged
<1>5. TypeOK'
  BY <1>2, <1>3, <1>4 DEF IInv, TypeOK, Calls, Contexts
<1>6. InLoop' /\ Lent'
  BY <1>1, <1>2, <1>3, <1>4 DEF IInv, InLoop, Lent, At, Loops, Staged, SetTimestep
<1>7. StepInv'
  BY <1>1, <1>2, <1>3 DEF IInv, StepInv, StepsInRange, NaNExcused, At
<1>8. ResultInv'
  BY <1>1, <1>2, <1>3 DEF IInv, ResultInv, NaNStepDiscarded, AcceptedStepReported, At
<1> QED BY <1>5, <1>6, <1>7, <1>8 DEF IInv

LEMMA EtdRefusesStep ==
  ASSUME IInv, EtdRefuses
  PROVE  IInv'
<1>1. /\ call \in Calls /\ context \in Contexts /\ Method.loop = "exponential"
      /\ call.pc = "exponential"
  BY Typed DEF IInv, EtdRefuses, At, InLoop, Loops, Staged
<1>2. /\ setup' = setup /\ Method' = Method /\ last' = last /\ starved' = starved
      /\ current_dt' = current_dt
      /\ field' = field
  BY DEF EtdRefuses, Method, Buffers, Report
<1>3. /\ call' \in Calls /\ call'.dt = call.dt /\ call'.step = call.step
      /\ call'.pc = "return" /\ call'.failed
  BY <1>1 DEF IInv, EtdRefuses, Calls, Pcs, ResultInv, At
<1>4. /\ context' \in Contexts /\ context'.stepping = context.stepping
      /\ context' = context
  BY <1>1, TimestepTyped DEF IInv, EtdRefuses, Contexts, Calls, Lent, At, Staged
<1>5. TypeOK'
  BY <1>2, <1>3, <1>4 DEF IInv, TypeOK, Calls, Contexts
<1>6. InLoop' /\ Lent'
  BY <1>1, <1>2, <1>3, <1>4 DEF IInv, InLoop, Lent, At, Loops, Staged, SetTimestep
<1>7. StepInv'
  BY <1>1, <1>2, <1>3 DEF IInv, StepInv, StepsInRange, NaNExcused, At
<1>8. ResultInv'
  BY <1>1, <1>2, <1>3 DEF IInv, ResultInv, NaNStepDiscarded, AcceptedStepReported, At
<1> QED BY <1>5, <1>6, <1>7, <1>8 DEF IInv

LEMMA StageBeginStep ==
  ASSUME IInv, NEW d \in InnerDts \cup MinDt..MaxDt, StageBegin(d)
  PROVE  IInv'
<1>1. /\ call \in Calls /\ context \in Contexts /\ Method.loop = "exponential"
      /\ call.pc = "stages" /\ d \in Nat \ {0}
  BY Typed, IntegratorAssumption, DtAssumption
     DEF IInv, StageBegin, InStages, At, InLoop, Loops, Staged
<1>2. /\ setup' = setup /\ Method' = Method /\ last' = last /\ starved' = starved
      /\ current_dt' = current_dt
      /\ field' = "stage"
  BY DEF StageBegin, InStages, Method, Buffers, Report
<1>3. /\ call' \in Calls /\ call'.dt = call.dt /\ call'.step = call.step
      /\ call'.pc = "stage" /\ ~call'.failed
  BY <1>1 DEF IInv, StageBegin, InStages, Calls, Pcs, ResultInv, At
<1>4. /\ context' \in Contexts /\ context'.stepping = context.stepping
      /\ context'.drift = context.drift
  BY <1>1, TimestepTyped DEF IInv, StageBegin, InStages, Contexts, Calls, Lent, At, Staged
<1>5. TypeOK'
  BY <1>2, <1>3, <1>4 DEF IInv, TypeOK, Calls, Contexts
<1>6. InLoop' /\ Lent'
  BY <1>1, <1>2, <1>3, <1>4 DEF IInv, InLoop, Lent, At, Loops, Staged, SetTimestep
<1>7. StepInv'
  BY <1>1, <1>2, <1>3 DEF IInv, StepInv, StepsInRange, NaNExcused, At
<1>8. ResultInv'
  BY <1>1, <1>2, <1>3 DEF IInv, ResultInv, NaNStepDiscarded, AcceptedStepReported, At
<1> QED BY <1>5, <1>6, <1>7, <1>8 DEF IInv

LEMMA StageSkipStep ==
  ASSUME IInv, StageSkip
  PROVE  IInv'
<1>1. /\ call \in Calls /\ context \in Contexts /\ Method.loop = "exponential"
      /\ call.pc = "stages"
  BY Typed DEF IInv, StageSkip, InStages, At, InLoop, Loops, Staged
<1>2. /\ setup' = setup /\ Method' = Method /\ last' = last /\ starved' = starved
      /\ current_dt' = current_dt
      /\ field' = field
  BY DEF StageSkip, InStages, Method, Buffers, Report
<1>3. /\ call' \in Calls /\ call'.dt = call.dt /\ call'.step = call.step
      /\ call'.pc = "stages" /\ ~call'.failed
  BY <1>1 DEF IInv, StageSkip, InStages, Calls, Pcs, ResultInv, At
<1>4. /\ context' \in Contexts /\ context'.stepping = context.stepping
      /\ context' = context
  BY <1>1, TimestepTyped DEF IInv, StageSkip, InStages, Contexts, Calls, Lent, At, Staged
<1>5. TypeOK'
  BY <1>2, <1>3, <1>4 DEF IInv, TypeOK, Calls, Contexts
<1>6. InLoop' /\ Lent'
  BY <1>1, <1>2, <1>3, <1>4 DEF IInv, InLoop, Lent, At, Loops, Staged, SetTimestep
<1>7. StepInv'
  BY <1>1, <1>2, <1>3 DEF IInv, StepInv, StepsInRange, NaNExcused, At
<1>8. ResultInv'
  BY <1>1, <1>2, <1>3 DEF IInv, ResultInv, NaNStepDiscarded, AcceptedStepReported, At
<1> QED BY <1>5, <1>6, <1>7, <1>8 DEF IInv

LEMMA StageEndStep ==
  ASSUME IInv, NEW ok \in BOOLEAN, StageEnd(ok)
  PROVE  IInv'
<1>1. /\ call \in Calls /\ context \in Contexts /\ Method.loop = "exponential"
      /\ call.pc = "stage" /\ Feedback(1) \in Nat
  BY Typed, FeedbackTyped DEF IInv, StageEnd, At, InLoop, Loops, Staged
<1>2. /\ setup' = setup /\ Method' = Method /\ last' = last /\ starved' = starved
      /\ current_dt' = current_dt
      /\ field' = field
  BY DEF StageEnd, Method, Buffers, Report
<1>3. /\ call' \in Calls /\ call'.dt = call.dt /\ call'.step = call.step
      /\ call'.pc = (IF ok THEN "stages" ELSE "cleanup")
      /\ call'.failed = ~ok
  <2>1. PICK f \in Nat, m \in Nat : f = Feedback(1) /\ m = call.stage + 1
    BY <1>1 DEF Calls
  <2>2. call' = [call EXCEPT !.pc = IF ok THEN "stages" ELSE "cleanup", !.failed = ~ok,
                             !.stage = m, !.feedback = f]
    BY <2>1 DEF StageEnd
  <2> QED BY <1>1, <2>1, <2>2 DEF Calls, Pcs, Loops
<1>4. /\ context' \in Contexts /\ context'.stepping = context.stepping
      /\ context'.drift = context.drift /\ ~context'.override
      /\ context'.dt = SetTimestep(call.dt)
  BY <1>1, TimestepTyped DEF IInv, StageEnd, Contexts, Calls, Lent, At, Staged
<1>5. TypeOK'
  BY <1>2, <1>3, <1>4 DEF IInv, TypeOK, Calls, Contexts
<1>6. InLoop' /\ Lent'
  BY <1>1, <1>2, <1>3, <1>4 DEF IInv, InLoop, Lent, At, Loops, Staged, SetTimestep
<1>7. StepInv'
  BY <1>1, <1>2, <1>3 DEF IInv, StepInv, StepsInRange, NaNExcused, At
<1>8. ResultInv'
  BY <1>1, <1>2, <1>3 DEF IInv, ResultInv, NaNStepDiscarded, AcceptedStepReported, At
<1> QED BY <1>5, <1>6, <1>7, <1>8 DEF IInv

LEMMA CleanupStep ==
  ASSUME IInv, Cleanup
  PROVE  IInv'
<1>1. /\ call \in Calls /\ context \in Contexts /\ Method.loop = "exponential"
      /\ call.pc = "cleanup"
  BY Typed DEF IInv, Cleanup, At, InLoop, Loops, Staged
<1>2. /\ setup' = setup /\ Method' = Method /\ last' = last /\ starved' = starved
      /\ current_dt' = current_dt
      /\ field' = field
  BY DEF Cleanup, Method, Buffers, Report
<1>3. /\ call' \in Calls /\ call'.dt = call.dt /\ call'.step = call.step
      /\ call'.pc = "return" /\ call'.failed = call.failed /\ call'.accepted = call.accepted
  BY <1>1 DEF IInv, Cleanup, Calls, Pcs, ResultInv, At
<1>4. /\ context' \in Contexts /\ context'.stepping = context.stepping
      /\ context'.drift = 0 /\ ~context'.override /\ context'.dt = SetTimestep(call.dt)
  <2>1. /\ context.drift = 1
        /\ context' = [context EXCEPT !.dt = SetTimestep(call.dt), !.override = FALSE,
                                      !.drift = @ - 1]
    BY <1>1 DEF IInv, Lent, Staged, Cleanup, LeaveDrift
  <2>2. PICK t \in Nat \ {0} : t = SetTimestep(call.dt)
    BY <1>1, TimestepTyped DEF Calls
  <2>3. context' = [context EXCEPT !.dt = t, !.override = FALSE, !.drift = 0]
    BY <2>1, <2>2
  <2>4. PICK s \in BOOLEAN : s = context.stepping
    BY <1>1 DEF Contexts
  <2>5. context' = [dt |-> t, drift |-> 0, override |-> FALSE, stepping |-> s]
    BY <1>1, <2>3, <2>4 DEF Contexts
  <2> QED BY <2>2, <2>4, <2>5 DEF Contexts
<1>5. TypeOK'
  BY <1>2, <1>3, <1>4 DEF IInv, TypeOK, Calls, Contexts
<1>6. InLoop' /\ Lent'
  BY <1>1, <1>2, <1>3, <1>4 DEF IInv, InLoop, Lent, At, Loops, Staged, SetTimestep
<1>7. StepInv'
  BY <1>1, <1>2, <1>3 DEF IInv, StepInv, StepsInRange, NaNExcused, At
<1>8. ResultInv'
  BY <1>1, <1>2, <1>3 DEF IInv, ResultInv, NaNStepDiscarded, AcceptedStepReported, At
<1> QED BY <1>5, <1>6, <1>7, <1>8 DEF IInv

\* The end of a scheme without attempts.
LEMMA StoredStep ==
  ASSUME IInv,
         call.pc \in {"quadrature", "stages"}, StoreResult,
         /\ context' = [context EXCEPT !.drift = 0]
         /\ call' = [call EXCEPT !.pc = "return", !.tried = call.step, !.made = 1,
                                 !.accepted = TRUE]
         /\ UNCHANGED <<setup, Buffers>>
  PROVE  IInv'
<1>1. /\ call \in Calls /\ context \in Contexts /\ Method.loop \in {"quadrature", "exponential"}
      /\ NaNExcused(call.step)
  BY Typed DEF IInv, At, InLoop, Loops, Staged, StepInv
<1>2. setup' = setup /\ Method' = Method /\ starved' = starved /\ field' = "result"
  BY DEF StoreResult, Method, Buffers
<1>3. /\ call' \in Calls /\ call'.pc = "return" /\ call'.dt = call.dt /\ call'.step = call.step
      /\ call'.tried = call.step /\ call'.failed = call.failed
  BY <1>1 DEF Calls, Pcs
<1>4. /\ context' \in Contexts /\ context'.stepping = context.stepping
      /\ context'.drift = 0 /\ context'.override = context.override /\ context'.dt = context.dt
  BY <1>1 DEF Contexts
<1>5. call.step = NaN => Method.loop = "quadrature"
  BY <1>1 DEF NaNExcused
<1>6. current_dt' \in Dts /\ (current_dt' = NaN => call.step = NaN)
  BY <1>1, ClampTyped DEF StoreResult, Calls
<1>7. last' \in [step : Dts, attempts : Nat, rejections : Nat] /\ last'.step = call.step
  BY <1>1 DEF StoreResult, Calls
<1>8. TypeOK'
  BY <1>2, <1>3, <1>4, <1>6, <1>7 DEF IInv, TypeOK, Calls, Contexts
<1>9. InLoop' /\ Lent'
  BY <1>3, <1>4 DEF IInv, InLoop, Lent, At, Loops, Staged, SetTimestep
<1>10. StepInv'
  BY <1>2, <1>3, <1>5, <1>6 DEF StepInv, StepsInRange, NaNExcused, At
<1>11. ResultInv'
  BY <1>2, <1>3, <1>5, <1>7 DEF IInv, ResultInv, NaNStepDiscarded, AcceptedStepReported, At
<1> QED BY <1>8, <1>9, <1>10, <1>11 DEF IInv

LEMMA QuadratureEndStep ==
  ASSUME IInv, QuadratureEnd
  PROVE  IInv'
<1>1. context \in Contexts /\ context.drift = 0
  BY Typed DEF IInv, QuadratureEnd, At, Lent, Staged
<1>2. context' = [context EXCEPT !.drift = 0]
  BY <1>1 DEF QuadratureEnd, Contexts
<1> QED BY <1>2, StoredStep DEF QuadratureEnd, At

LEMMA EtdEndStep ==
  ASSUME IInv, EtdEnd
  PROVE  IInv'
<1>1. /\ context \in Contexts /\ context.drift = 1
      /\ context.override = FALSE /\ context.dt = SetTimestep(call.dt)
  BY Typed DEF IInv, EtdEnd, At, Lent, Staged, Contexts
<1>2. context' = [context EXCEPT !.drift = 0]
  <2>1. context' = [context EXCEPT !.dt = context.dt, !.override = context.override, !.drift = 0]
    <3>1. context' = [context EXCEPT !.dt = SetTimestep(call.dt), !.override = FALSE,
                                     !.drift = @ - 1]
      BY DEF EtdEnd, LeaveDrift
    <3>2. context.drift - 1 = 0
      BY <1>1
    <3> QED BY <1>1, <3>1, <3>2, Zenon
  <2>2. [context EXCEPT !.dt = context.dt, !.override = context.override, !.drift = 0]
          = [context EXCEPT !.drift = 0]
    BY <1>1 DEF Contexts
  <2> QED BY <2>1, <2>2
<1> QED BY <1>2, StoredStep DEF EtdEnd, At

LEMMA ReturnStep ==
  ASSUME IInv, Return
  PROVE  IInv'
<1>1. /\ call \in Calls /\ context \in Contexts /\ call.pc = "return"
      /\ last \in [step : Dts, attempts : Nat, rejections : Nat]
  BY Typed DEF IInv, Return, At, TypeOK
<1>2. /\ setup' = setup /\ Method' = Method /\ starved' = starved /\ field' = field
      /\ current_dt' = current_dt /\ call' = NoCall
  BY DEF Return, Method, Buffers
<1>3. last' \in [step : Dts, attempts : Nat, rejections : Nat]
  BY <1>1 DEF Return, Calls, Dts
<1>4. /\ context' \in Contexts /\ ~context'.stepping
      /\ context'.drift = context.drift /\ context'.override = context.override
  BY <1>1 DEF Return, Contexts
<1>5. call' \in Calls /\ call'.pc = "idle" /\ call'.step = 0 /\ ~call'.failed
  BY <1>2, NoCallTyped
<1>6. TypeOK'
  BY <1>2, <1>3, <1>4, <1>5 DEF IInv, TypeOK, Calls, Contexts
<1>7. InLoop' /\ Lent'
  BY <1>1, <1>4, <1>5 DEF IInv, InLoop, Lent, At, Loops, Staged
<1>8. StepInv'
  BY <1>2, <1>5 DEF IInv, StepInv, StepsInRange, NaNExcused, At, NaN
<1>9. ResultInv'
  BY <1>5 DEF ResultInv, NaNStepDiscarded, AcceptedStepReported, At
<1> QED BY <1>6, <1>7, <1>8, <1>9 DEF IInv
-------------------------------------------------------------------------------
LEMMA InvariantInit == Init => IInv
<1> SUFFICES ASSUME Init
             PROVE  IInv
  OBVIOUS
<1>1. /\ setup \in Setups /\ call = NoCall /\ starved = FALSE /\ field = "data"
      /\ context = [dt |-> DefaultDt, drift |-> 0, override |-> FALSE, stepping |-> FALSE]
  BY DEF Init
<1>2. PICK r \in Requests : current_dt = integrator_clamp_dt(IF r > 0 THEN r ELSE MinDt)
  BY DEF Init
<1> DEFINE d == IF r > 0 THEN r ELSE MinDt
<1>3. current_dt \in Dts /\ current_dt # NaN
  <2>1. d \in Dts /\ d # NaN
    BY <1>2, IntegratorAssumption, DtAssumption DEF Dts, NaN
  <2> QED BY <1>2, <2>1, ClampTyped
<1>4. last \in [step : Dts, attempts : Nat, rejections : Nat]
  BY <1>3 DEF Init
<1>5. call \in Calls /\ call.pc = "idle" /\ call.step = 0 /\ ~call.failed
  BY <1>1, NoCallTyped
<1>6. TypeOK
  <2>1. context \in Contexts
    BY <1>1, IntegratorAssumption DEF Contexts
  <2> QED BY <1>1, <1>3, <1>4, <1>5, <2>1 DEF TypeOK, Calls, Contexts
<1>7. InLoop /\ Lent
  BY <1>1, <1>5 DEF InLoop, Lent, At, Loops, Staged
<1>8. StepInv
  BY <1>3, <1>5 DEF StepInv, StepsInRange, NaNExcused, At, NaN
<1>9. ResultInv
  BY <1>5 DEF ResultInv, NaNStepDiscarded, AcceptedStepReported, At
<1> QED BY <1>6, <1>7, <1>8, <1>9 DEF IInv

LEMMA CallingStep ==
  ASSUME IInv, Calling
  PROVE  IInv'
<1>1. PICK dt \in Requests :
        \/ \E t \in Targets : StepBegin(dt, t) \/ StepUnsupported(dt, t)
        \/ StepRefused(dt)
        \/ \E t \in Targets, i \in Failing : WorkspaceFails(dt, t, i)
  BY DEF Calling
<1>2. starved \in BOOLEAN
  BY DEF IInv, TypeOK
<1>3. ASSUME NEW t \in Targets, StepBegin(dt, t)
      PROVE  IInv'
  BY <1>3, StepBeginStep
<1>4. ASSUME NEW t \in Targets, StepUnsupported(dt, t)
      PROVE  IInv'
  BY <1>2, <1>4, BeginFailsStep DEF StepUnsupported, Buffers
<1>5. CASE StepRefused(dt)
  BY <1>5, RefusedStep
<1>6. ASSUME NEW t \in Targets, NEW i \in Failing, WorkspaceFails(dt, t, i)
      PROVE  IInv'
  <2>1. starved' \in BOOLEAN
    BY <1>6, Zenon DEF WorkspaceFails
  <2> QED BY <1>6, <2>1, BeginFailsStep DEF WorkspaceFails
<1> QED BY <1>1, <1>3, <1>4, <1>5, <1>6

LEMMA InvariantStep == IInv /\ [Next]_vars => IInv'
<1> SUFFICES ASSUME IInv, [Next]_vars
             PROVE  IInv'
  OBVIOUS
<1>1. CASE Calling
  BY <1>1, CallingStep
<1>2. CASE Running
  <2>1. CASE \E error \in Errors : Attempt(error)
    BY <2>1, AttemptStep
  <2>2. CASE \E n \in 1..Iterations, converged \in BOOLEAN : Iterate(n, converged)
    BY <2>2, IterateStep
  <2>3. CASE \E n \in 1..(Iterations + 7) : AttemptFails(n)
    BY <2>3, AttemptFailsStep, IntegratorAssumption
  <2>4. CASE Finish
    BY <2>4, FinishStep
  <2>5. CASE \/ \E d \in InnerDts : NodeBegin(d)
             \/ \E ok \in BOOLEAN : NodeEnd(ok)
             \/ QuadratureEnd
    BY <2>5, NodeBeginStep, NodeEndStep, QuadratureEndStep
  <2>6. CASE EtdBegin \/ EtdRefuses \/ StageSkip \/ Cleanup \/ EtdEnd
    BY <2>6, EtdBeginStep, EtdRefusesStep, StageSkipStep, CleanupStep, EtdEndStep
  <2>7. CASE \/ \E d \in InnerDts \cup MinDt..MaxDt : StageBegin(d)
             \/ \E ok \in BOOLEAN : StageEnd(ok)
    BY <2>7, StageBeginStep, StageEndStep
  <2>8. CASE Return
    BY <2>8, ReturnStep
  <2> QED BY <1>2, <2>1, <2>2, <2>3, <2>4, <2>5, <2>6, <2>7, <2>8 DEF Running
<1>3. CASE UNCHANGED vars
  BY <1>3 DEF vars, IInv, TypeOK, InLoop, Lent, StepInv, StepsInRange, Lengthens, NaNExcused,
              ResultInv, NaNStepDiscarded, AcceptedStepReported, At, Method
<1> QED BY <1>1, <1>2, <1>3 DEF Next
-------------------------------------------------------------------------------
\* The inductive invariant of a step of an integrator: which part of the context a call
\* holds at each of its places, which step sizes it can be working with there, and what
\* the field may contain (integrator.c:1095, the step functions of integrators/src).
THEOREM StepInvariant == Spec => []IInv
<1>1. Init => IInv
  BY InvariantInit
<1>2. IInv /\ [Next]_vars => IInv'
  BY InvariantStep
<1> QED BY <1>1, <1>2, PTL DEF Spec

\* For any bounds and requests an attempt is made with a step between min_dt and max_dt,
\* or is the first one and has the NaN an earlier error has left (integrator_clamp_dt and
\* integrator_reject_dt, integrator.c).
THEOREM AttemptsAreInRange == Spec => []StepsInRange
<1>1. IInv => StepsInRange
  BY DEF IInv, StepInv
<1> QED BY <1>1, StepInvariant, PTL

\* In a complex field, no scheme with an error control of its own stores what it has
\* computed with a NaN for its timestep: the NaN reaches the norm of its error, the attempt
\* is rejected, and it is not the last one.  (The fmax of the norms of a real field loses
\* the NaN, and subordination takes its nodes as they come.)
THEOREM NaNIsDiscarded == Spec => []NaNStepDiscarded
<1>1. IInv => NaNStepDiscarded
  BY DEF IInv, ResultInv
<1> QED BY <1>1, StepInvariant, PTL

\* An accepted step is the one reported when the step function returns, for every scheme.
THEOREM AcceptedIsReported == Spec => []AcceptedStepReported
<1>1. IInv => AcceptedStepReported
  BY DEF IInv, ResultInv
<1> QED BY <1>1, StepInvariant, PTL

\* Whatever fails on the way, between steps the context is out of drift mode, its clock is
\* its own and no step is marked as running.
THEOREM ContextIsRestored == Spec => []ContextRestored
<1>1. IInv => ContextRestored
  BY DEF IInv, Lent, ContextRestored, At, Staged
<1> QED BY <1>1, StepInvariant, PTL

\* A step function returns with the caller's timestep in the context, also out of a node of
\* subordination or a stage of etdrk4 that has failed.
THEOREM TimestepIsRestored == Spec => []TimestepRestored
<1>1. IInv => TimestepRestored
  BY DEF IInv, Lent, TimestepRestored, At
<1> QED BY <1>1, StepInvariant, PTL

\* Only etdrk4 leaves something else in the field than it found there when it fails.
THEOREM FailureLeavesField == Spec => []FailureKeepsField
<1>1. IInv => FailureKeepsField
  BY DEF IInv, TypeOK, ResultInv, FailureKeepsField, At, Loops
<1> QED BY <1>1, StepInvariant, PTL

\* A step that error control or the iteration rejects is retried with a smaller one, so a
\* step function cannot come back to a step size it has rejected; for the implicit schemes
\* as long as the safety factor is below two.
THEOREM RetriesShorten == Spec => RetriesAreShorter
<1> DEFINE Retry == call.pc \in {"explicit", "implicit"} /\ call'.pc = call.pc
           Shorter == call'.step < call.step \/ call.step = NaN \/ Lengthens
<1>1. ASSUME IInv, Next, Retry
      PROVE  Shorter
  <2>1. /\ call \in Calls /\ setup.adaptive \in BOOLEAN /\ setup.safety \in Nat
    BY <1>1, Typed DEF IInv
  <2>2. CASE \E error \in Errors : Attempt(error)
    <3>1. PICK error \in Errors : Attempt(error)
      BY <2>2
    <3>2. call.pc = "explicit" /\ ~Accepts(error)
      BY <1>1, <2>1, <3>1 DEF Attempt, At, Tried, Calls
    <3>3. PICK s \in integrator_suggest_dt(call.step, error, TRUE, setup.safety) :
            call'.step = integrator_reject_dt(call.step, s, setup.safety)
      BY <2>1, <3>1, <3>2 DEF Attempt, Tried, Calls
    <3>4. s \in Dts
      BY <2>1, SuggestTyped DEF Calls
    <3>5. call.step # NaN => call.step > MinDt
      BY <2>1, <3>2, DtAssumption DEF Accepts, AtMost, Calls, Dts, NaN
    <3> QED BY <2>1, <3>3, <3>4, <3>5, RejectRange DEF Calls
  <2>3. CASE \E n \in 1..Iterations, converged \in BOOLEAN : Iterate(n, converged)
    <3>1. PICK n \in 1..Iterations, converged \in BOOLEAN : Iterate(n, converged)
      BY <2>3
    <3>2. call.pc = "implicit" /\ Method.loop = "implicit"
      BY <1>1, <3>1 DEF IInv, Iterate, At, InLoop, Loops
    <3>3. call.step \in Nat
      BY <1>1, <2>1, <3>2 DEF IInv, StepInv, NaNExcused, Calls, Dts
    <3>4. /\ ~Gives
          /\ call'.step = Max(MinDt, Halved(call.step, setup.safety))
      BY <1>1, <2>1, <3>1, <3>2 DEF Iterate, Calls
    <3>5. call.step > MinDt
      BY <3>3, <3>4, DtAssumption DEF Gives
    <3>6. ~Lengthens => Halved(call.step, setup.safety) < call.step
      BY <2>1, <3>2, <3>3, <3>5, HalvedShorter, DtAssumption DEF Lengthens
    <3>7. Halved(call.step, setup.safety) \in Nat
      BY <2>1, <3>3, ScaledNat
    <3> QED BY <3>3, <3>4, <3>5, <3>6, <3>7, DtAssumption DEF Max
  <2>4. CASE Calling
    BY <1>1, <2>4 DEF Calling, StepBegin, StepUnsupported, StepRefused, WorkspaceFails, At
  <2>5. CASE \/ \E n \in 1..(Iterations + 7) : AttemptFails(n)
             \/ Return
    BY <1>1, <2>1, <2>5 DEF AttemptFails, Return, NoCall, Calls, At
  <2>6. CASE \/ Finish
             \/ \E d \in InnerDts : NodeBegin(d)
             \/ \E ok \in BOOLEAN : NodeEnd(ok)
             \/ QuadratureEnd
             \/ EtdBegin \/ EtdRefuses
             \/ \E d \in InnerDts \cup MinDt..MaxDt : StageBegin(d)
             \/ StageSkip
             \/ \E ok \in BOOLEAN : StageEnd(ok)
             \/ Cleanup \/ EtdEnd
    BY <1>1, <2>6 DEF Finish, NodeBegin, NodeEnd, QuadratureEnd, EtdBegin, EtdRefuses, InStages,
                      StageBegin, StageSkip, StageEnd, Cleanup, EtdEnd, At
  <2> QED BY <1>1, <2>2, <2>3, <2>4, <2>5, <2>6 DEF Next, Running
<1>2. IInv /\ [Next]_vars => [Retry => Shorter]_vars
  BY <1>1
<1> QED BY <1>2, StepInvariant, PTL DEF Spec, RetriesAreShorter
-------------------------------------------------------------------------------
\* The buffers.  One that has been allocated holds what the workspace says of all of
\* them; one that has not is missing only while the workspace holds no more than the
\* hint has asked for.
Workspaces == [sizes : Seq(Nat), elements : Nat, element_size : 1..2]
Whole(w, n) == Len(w.sizes) >= n /\ \A i \in DOMAIN w.sizes : w.sizes[i] # 0
Sound(w, n, hint) ==
  /\ w \in Workspaces
  /\ \A i \in DOMAIN w.sizes : w.sizes[i] = 0 \/ w.sizes[i] >= w.elements * w.element_size
  /\ Whole(w, n) \/ w.elements <= hint

\* A call that works on its buffers finds them sound and large enough for its field.
Excused == starved \/ \E t \in Targets : setup.hint > t.length
BufferInv ==
  \/ Excused
  \/ /\ Sound(workspace, Method.buffers, setup.hint)
     /\ call.pc \notin {"idle", "return"} =>
          Fits(workspace, Method.buffers, call.target.length, call.target.element_size)

LEMMA PaddedTyped ==
  ASSUME NEW sizes \in Seq(Nat), NEW n \in Nat
  PROVE  /\ Padded(sizes, n) \in Seq(Nat) /\ Len(Padded(sizes, n)) \in Nat
         /\ Len(Padded(sizes, n)) >= n /\ Len(Padded(sizes, n)) >= Len(sizes)
         /\ DOMAIN Padded(sizes, n) = 1..Len(Padded(sizes, n))
         /\ \A i \in DOMAIN Padded(sizes, n) :
              Padded(sizes, n)[i] = IF i <= Len(sizes) THEN sizes[i] ELSE 0
         /\ Len(sizes) >= n => Len(Padded(sizes, n)) = Len(sizes)
<1>1. PICK k \in Nat : k = IF Len(sizes) < n THEN n ELSE Len(sizes)
  OBVIOUS
<1>2. Padded(sizes, n) = [i \in 1..k |-> IF i <= Len(sizes) THEN sizes[i] ELSE 0]
  BY <1>1 DEF Padded
<1>3. \A i \in 1..k : (IF i <= Len(sizes) THEN sizes[i] ELSE 0) \in Nat
  OBVIOUS
<1>4. Padded(sizes, n) \in Seq(Nat) /\ Len(Padded(sizes, n)) = k
  BY <1>2, <1>3
<1> QED BY <1>1, <1>2, <1>4

\* Those that are looked at and replaced, or were missing, have the new size.
Renewed(sizes, w, n, e, es, I) ==
  LET padded == Padded(w.sizes, n)
  IN /\ sizes \in Seq(Nat)
     /\ Len(sizes) = Len(padded)
     /\ DOMAIN sizes = DOMAIN padded
     /\ \A i \in DOMAIN padded :
          sizes[i] = IF i \in I /\ (NeedsResize(w, e, es) \/ padded[i] = 0)
                       THEN e * es ELSE padded[i]

LEMMA AllocatedTyped ==
  ASSUME NEW w \in Workspaces, NEW n \in Nat, NEW e \in Nat \ {0}, NEW es \in 1..2, NEW I
  PROVE  Renewed(Allocated(w, n, e, es, I), w, n, e, es, I)
<1>1. PICK P \in Seq(Nat) : P = Padded(w.sizes, n)
  BY PaddedTyped DEF Workspaces
<1>2. PICK p \in Nat : p = e * es
  BY Product
<1>3. PICK A : A = Allocated(w, n, e, es, I)
  OBVIOUS
<1>4. A = [i \in DOMAIN P |-> IF i \in I /\ (NeedsResize(w, e, es) \/ P[i] = 0)
                                THEN p ELSE P[i]]
  BY <1>1, <1>2, <1>3 DEF Allocated
<1>5. DOMAIN P = 1..Len(P) /\ Len(P) \in Nat
  BY <1>1
<1>6. A \in Seq(Nat) /\ Len(A) = Len(P)
  BY <1>1, <1>2, <1>4, <1>5
<1>7. Renewed(A, w, n, e, es, I)
  BY <1>1, <1>2, <1>4, <1>6 DEF Renewed
<1> QED BY <1>3, <1>7

\* integrator_ensure_workspace leaves buffers that are sound and fit the field.
LEMMA EnsuredSound ==
  ASSUME NEW n \in Nat, NEW hint \in Nat, NEW e \in Nat \ {0}, NEW es \in 1..2, hint <= e,
         NEW w, Sound(w, n, hint)
  PROVE  Sound(Ensured(w, n, e, es), n, hint) /\ Fits(Ensured(w, n, e, es), n, e, es)
<1> DEFINE padded == Padded(w.sizes, n)
           sizes == Allocated(w, n, e, es, DOMAIN padded)
           v == Ensured(w, n, e, es)
<1>1. w \in Workspaces /\ w.sizes \in Seq(Nat) /\ w.elements \in Nat /\ w.element_size \in 1..2
  BY DEF Sound, Workspaces
<1>2. /\ padded \in Seq(Nat) /\ Len(padded) \in Nat /\ Len(padded) >= n
      /\ DOMAIN padded = 1..Len(padded)
      /\ \A i \in DOMAIN padded : padded[i] = IF i <= Len(w.sizes) THEN w.sizes[i] ELSE 0
      /\ Len(w.sizes) >= n => Len(padded) = Len(w.sizes)
  <2> HIDE DEF v, sizes
  <2> QED BY <1>1, PaddedTyped, Zenon
<1>3. /\ sizes \in Seq(Nat) /\ Len(sizes) = Len(padded) /\ DOMAIN sizes = DOMAIN padded
      /\ \A i \in DOMAIN padded : sizes[i] = IF NeedsResize(w, e, es) \/ padded[i] = 0
                                               THEN e * es ELSE padded[i]
  <2>1. Renewed(sizes, w, n, e, es, DOMAIN padded)
    BY <1>1, AllocatedTyped
  <2> HIDE DEF sizes, v
  <2> QED BY <2>1 DEF Renewed
<1>4. /\ v = [sizes |-> sizes, element_size |-> es,
              elements |-> IF NeedsResize(w, e, es) THEN e ELSE w.elements]
      /\ v.sizes = sizes /\ v.element_size = es
      /\ v.elements = IF NeedsResize(w, e, es) THEN e ELSE w.elements
  BY DEF Ensured
<1>5. PICK p \in Nat : p = e * es /\ p >= 1
  OBVIOUS
<1> HIDE DEF padded, sizes, v
<1>6. v \in Workspaces
  BY <1>1, <1>3, <1>4 DEF Workspaces
<1>7. CASE NeedsResize(w, e, es)
  <2>1. \A i \in DOMAIN sizes : sizes[i] = p
    BY <1>3, <1>5, <1>7
  <2>2. v.elements * v.element_size = p
    BY <1>4, <1>5, <1>7
  <2>3. Len(sizes) >= n
    BY <1>2, <1>3
  <2>4. Sound(v, n, hint)
    BY <1>4, <1>5, <1>6, <2>1, <2>2, <2>3 DEF Sound, Whole
  <2>5. Fits(v, n, e, es)
    <3>1. \A i \in 1..n : i \in DOMAIN sizes
      BY <1>2, <1>3, <2>3
    <3> QED BY <1>4, <1>5, <2>1, <2>3, <3>1 DEF Fits
  <2> QED BY <2>4, <2>5 DEF v
<1>8. CASE ~NeedsResize(w, e, es)
  <2>1. w.elements >= e /\ w.element_size = es
    BY <1>1, <1>8 DEF NeedsResize
  <2>2. PICK q \in Nat : q = w.elements * es /\ q >= p /\ (w.elements = e => q = p)
    BY <1>1, <1>5, <2>1
  <2>3. v.elements * v.element_size = q
    BY <1>4, <1>8, <2>2
  <2>4. \A i \in DOMAIN padded : padded[i] = 0 \/ padded[i] >= q
    <3>1. \A i \in DOMAIN w.sizes : w.sizes[i] = 0 \/ w.sizes[i] >= q
      BY <2>1, <2>2 DEF Sound
    <3>2. \A i \in DOMAIN padded : i <= Len(w.sizes) => i \in DOMAIN w.sizes
      BY <1>1, <1>2
    <3> QED BY <1>2, <3>1, <3>2
  <2>5. CASE Whole(w, n)
    <3>1. \A i \in DOMAIN padded : padded[i] # 0
      <4>1. Len(padded) = Len(w.sizes) /\ \A i \in DOMAIN w.sizes : w.sizes[i] # 0
        BY <1>2, <2>5 DEF Whole
      <4>2. \A i \in DOMAIN padded : i \in DOMAIN w.sizes /\ i <= Len(w.sizes)
        BY <1>1, <1>2, <4>1
      <4> QED BY <1>2, <4>1, <4>2
    <3>2. \A i \in DOMAIN sizes : sizes[i] = padded[i]
      BY <1>3, <1>8, <3>1
    <3>3. \A i \in DOMAIN sizes : sizes[i] >= q /\ sizes[i] # 0 /\ sizes[i] \in Nat
      BY <1>3, <2>4, <3>1, <3>2
    <3>4. Len(sizes) >= n
      BY <1>2, <1>3
    <3>5. Sound(v, n, hint)
      BY <1>4, <1>6, <2>3, <3>3, <3>4 DEF Sound, Whole
    <3>6. \A i \in 1..n : i \in DOMAIN sizes
      BY <1>2, <1>3, <3>4
    <3>7. Fits(v, n, e, es)
      BY <1>4, <1>5, <2>2, <3>3, <3>4, <3>6 DEF Fits
    <3> QED BY <3>5, <3>7 DEF v
  <2>6. CASE w.elements <= hint
    <3>1. q = p /\ w.elements = e
      BY <1>1, <2>1, <2>2, <2>6
    <3>2. \A i \in DOMAIN sizes : sizes[i] \in Nat /\ sizes[i] >= p
      BY <1>2, <1>3, <1>5, <1>8, <2>4, <3>1
    <3>3. Len(sizes) >= n
      BY <1>2, <1>3
    <3>4. \A i \in DOMAIN sizes : sizes[i] # 0
      BY <1>5, <3>2
    <3>5. Sound(v, n, hint)
      BY <1>4, <1>6, <2>3, <3>1, <3>2, <3>3, <3>4 DEF Sound, Whole
    <3>6. \A i \in 1..n : i \in DOMAIN sizes
      BY <1>2, <1>3, <3>3
    <3>7. Fits(v, n, e, es)
      BY <1>4, <1>5, <3>2, <3>3, <3>6 DEF Fits
    <3> QED BY <3>5, <3>7 DEF v
  <2> QED BY <2>5, <2>6 DEF Sound
<1> QED BY <1>7, <1>8

\* One that fails without having to replace them all leaves them sound.
LEMMA EnsureFailsSound ==
  ASSUME NEW n \in Nat, NEW hint \in Nat, NEW e \in Nat \ {0}, NEW es \in 1..2, hint <= e,
         NEW w, Sound(w, n, hint), ~NeedsResize(w, e, es), NEW j \in Nat
  PROVE  Sound(EnsureFails(w, n, e, es, j), n, hint)
<1> DEFINE padded == Padded(w.sizes, n)
           sizes == Allocated(w, n, e, es, 1..(j - 1))
           v == EnsureFails(w, n, e, es, j)
<1>1. w \in Workspaces /\ w.sizes \in Seq(Nat) /\ w.elements \in Nat /\ w.element_size \in 1..2
  BY DEF Sound, Workspaces
<1>2. /\ padded \in Seq(Nat) /\ Len(padded) \in Nat /\ Len(padded) >= n
      /\ DOMAIN padded = 1..Len(padded)
      /\ \A i \in DOMAIN padded : padded[i] = IF i <= Len(w.sizes) THEN w.sizes[i] ELSE 0
      /\ Len(w.sizes) >= n => Len(padded) = Len(w.sizes)
  <2> HIDE DEF v, sizes
  <2> QED BY <1>1, PaddedTyped, Zenon
<1>3. /\ sizes \in Seq(Nat) /\ Len(sizes) = Len(padded) /\ DOMAIN sizes = DOMAIN padded
      /\ \A i \in DOMAIN padded :
           sizes[i] = padded[i] \/ (sizes[i] = e * es /\ padded[i] = 0)
  <2>1. Renewed(sizes, w, n, e, es, 1..(j - 1))
    BY <1>1, AllocatedTyped
  <2> HIDE DEF sizes, v
  <2> QED BY <2>1 DEF Renewed
<1>4. /\ v \in Workspaces
      /\ v.sizes = sizes /\ v.element_size = w.element_size /\ v.elements = w.elements
  BY <1>1, <1>3 DEF EnsureFails, Workspaces
<1>5. w.elements >= e /\ w.element_size = es
  BY <1>1 DEF NeedsResize
<1>6. PICK q \in Nat : q = w.elements * es /\ (w.elements = e => q = e * es)
  BY <1>1, <1>5
<1> HIDE DEF padded, sizes, v
<1>7. \A i \in DOMAIN padded : padded[i] = 0 \/ padded[i] >= q
  <2>1. \A i \in DOMAIN w.sizes : w.sizes[i] = 0 \/ w.sizes[i] >= q
    BY <1>5, <1>6 DEF Sound
  <2>2. \A i \in DOMAIN padded : i <= Len(w.sizes) => i \in DOMAIN w.sizes
    BY <1>1, <1>2
  <2> QED BY <1>2, <2>1, <2>2
<1>8. CASE Whole(w, n)
  <2>1. \A i \in DOMAIN padded : padded[i] # 0
    <3>1. Len(padded) = Len(w.sizes) /\ \A i \in DOMAIN w.sizes : w.sizes[i] # 0
      BY <1>2, <1>8 DEF Whole
    <3>2. \A i \in DOMAIN padded : i \in DOMAIN w.sizes /\ i <= Len(w.sizes)
      BY <1>1, <1>2, <3>1
    <3> QED BY <1>2, <3>1, <3>2
  <2>2. \A i \in DOMAIN sizes : sizes[i] # 0 /\ sizes[i] >= q
    BY <1>3, <1>7, <2>1
  <2>3. Len(sizes) >= n
    BY <1>2, <1>3
  <2>4. Sound(v, n, hint)
    BY <1>4, <1>5, <1>6, <2>2, <2>3 DEF Sound, Whole
  <2> QED BY <2>4 DEF v
<1>9. CASE w.elements <= hint
  <2>1. q = e * es
    BY <1>1, <1>5, <1>6, <1>9
  <2>2. \A i \in DOMAIN sizes : sizes[i] = 0 \/ sizes[i] >= q
    BY <1>3, <1>6, <1>7, <2>1
  <2>3. Sound(v, n, hint)
    BY <1>4, <1>5, <1>6, <1>9, <2>2 DEF Sound
  <2> QED BY <2>3 DEF v
<1> QED BY <1>8, <1>9 DEF Sound
-------------------------------------------------------------------------------
\* The integrator is configured with no buffer, or one as long as the hint.
LEMMA BufferInit == Init => BufferInv
<1> SUFFICES ASSUME Init
             PROVE  BufferInv
  OBVIOUS
<1>1. setup \in Setups /\ call.pc = "idle"
  BY DEF Init, NoCall
<1>2. PICK n \in Nat : n = Method.buffers
  BY <1>1, Schemes DEF Setups, Method, Fitting
<1>3. PICK hint \in Nat : hint = setup.hint
  BY <1>1, IntegratorAssumption DEF Setups
<1>4. NoWorkspace \in Workspaces /\ NoWorkspace.sizes = << >> /\ NoWorkspace.elements = 0
  BY DEF NoWorkspace, Workspaces
<1>5. CASE hint = 0
  <2>1. Sound(NoWorkspace, n, hint)
    BY <1>4, <1>5 DEF Sound
  <2> QED BY <1>1, <1>2, <1>3, <1>5, <2>1 DEF Init, BufferInv
<1>6. CASE hint # 0
  <2>1. Sound(NoWorkspace, 1, hint)
    BY <1>4 DEF Sound
  <2>2. PICK v : v = Ensured(NoWorkspace, 1, hint, 1)
    OBVIOUS
  <2>3. Sound(v, 1, hint)
    BY <1>6, <2>1, <2>2, EnsuredSound
  <2>4. v.elements = hint
    BY <1>4, <1>6, <2>2 DEF Ensured, NeedsResize
  <2>5. Sound(v, n, hint)
    BY <2>3, <2>4 DEF Sound
  <2>6. workspace = v
    BY <1>3, <1>6, <2>2 DEF Init
  <2> QED BY <1>1, <1>2, <1>3, <2>5, <2>6 DEF BufferInv
<1> QED BY <1>5, <1>6

\* A step that leaves the buffers alone, and the field the call works on.
LEMMA BuffersKept ==
  ASSUME BufferInv,
         UNCHANGED <<setup, workspace, starved>>,
         \/ call'.pc \in {"idle", "return"}
         \/ call.pc \notin {"idle", "return"} /\ call'.target = call.target
  PROVE  BufferInv'
BY DEF BufferInv, Excused, Method

LEMMA BufferCalling ==
  ASSUME IInv, BufferInv, Calling
  PROVE  BufferInv'
<1>1. PICK dt \in Requests :
        \/ \E t \in Targets : StepBegin(dt, t) \/ StepUnsupported(dt, t)
        \/ StepRefused(dt)
        \/ \E t \in Targets, i \in Failing : WorkspaceFails(dt, t, i)
  BY DEF Calling
<1>2. PICK n \in Nat : n = Method.buffers
  BY Typed DEF IInv, Fitting
<1>3. PICK hint \in Nat : hint = setup.hint
  BY IntegratorAssumption DEF IInv, TypeOK, Setups
<1>4. ASSUME NEW t \in Targets
      PROVE  /\ t.length \in Nat \ {0} /\ t.element_size \in 1..2
             /\ Excused \/ hint <= t.length
  BY <1>3, IntegratorAssumption DEF Excused
<1>5. ASSUME NEW t \in Targets, StepBegin(dt, t)
      PROVE  BufferInv'
  <2>1. /\ setup' = setup /\ starved' = starved /\ Method' = Method
        /\ workspace' = Ensured(workspace, n, t.length, t.element_size)
    BY <1>2, <1>5 DEF StepBegin, Method
  <2>2. call'.target = t
    BY <1>5 DEF StepBegin, NoCall
  <2>3. CASE Excused
    BY <2>1, <2>3 DEF BufferInv, Excused
  <2>4. CASE ~Excused
    <3>1. Sound(workspace, n, hint)
      BY <1>2, <1>3, <2>4 DEF BufferInv
    <3>2. PICK e \in Nat \ {0}, es \in 1..2 : e = t.length /\ es = t.element_size /\ hint <= e
      BY <1>4, <2>4
    <3>3. PICK v : v = Ensured(workspace, n, e, es)
      OBVIOUS
    <3>4. Sound(v, n, hint) /\ Fits(v, n, e, es)
      BY <3>1, <3>2, <3>3, EnsuredSound
    <3>5. workspace' = v
      BY <2>1, <3>2, <3>3
    <3>6. Sound(workspace, Method.buffers, setup.hint)'
      BY <1>2, <1>3, <2>1, <3>4, <3>5
    <3>7. Fits(workspace, Method.buffers, call.target.length, call.target.element_size)'
      BY <1>2, <2>1, <2>2, <3>2, <3>4, <3>5
    <3> QED BY <3>6, <3>7 DEF BufferInv
  <2> QED BY <2>3, <2>4
<1>6. ASSUME NEW t \in Targets, StepUnsupported(dt, t)
      PROVE  BufferInv'
  <2>1. UNCHANGED <<setup, workspace, starved>> /\ call'.pc = "return"
    BY <1>6 DEF StepUnsupported, Buffers, NoCall
  <2> QED BY <2>1, BuffersKept
<1>7. CASE StepRefused(dt)
  <2>1. UNCHANGED <<setup, workspace, starved>> /\ call'.pc = "idle"
    BY <1>7 DEF StepRefused, Buffers, At
  <2> QED BY <2>1, BuffersKept
<1>8. ASSUME NEW t \in Targets, NEW i \in Failing, WorkspaceFails(dt, t, i)
      PROVE  BufferInv'
  <2>1. /\ setup' = setup /\ Method' = Method
        /\ workspace' = EnsureFails(workspace, n, t.length, t.element_size, i)
        /\ i \in Nat
    BY <1>2, <1>8 DEF WorkspaceFails, Method
  <2>2. call'.pc = "return"
    BY <1>8 DEF WorkspaceFails, NoCall
  <2>3. starved' = (starved \/ NeedsResize(workspace, t.length, t.element_size))
    BY <1>8 DEF WorkspaceFails
  <2>4. CASE Excused \/ NeedsResize(workspace, t.length, t.element_size)
    BY <2>1, <2>3, <2>4, Zenon DEF BufferInv, Excused
  <2>5. CASE ~Excused /\ ~NeedsResize(workspace, t.length, t.element_size)
    <3>1. Sound(workspace, n, hint)
      BY <1>2, <1>3, <2>5 DEF BufferInv
    <3>2. PICK e \in Nat \ {0}, es \in 1..2 : e = t.length /\ es = t.element_size /\ hint <= e
      BY <1>4, <2>5
    <3>3. PICK v : v = EnsureFails(workspace, n, e, es, i)
      OBVIOUS
    <3>4. Sound(v, n, hint)
      BY <2>1, <2>5, <3>1, <3>2, <3>3, EnsureFailsSound
    <3>5. workspace' = v
      BY <2>1, <3>2, <3>3
    <3>6. Sound(workspace, Method.buffers, setup.hint)'
      BY <1>2, <1>3, <2>1, <3>4, <3>5
    <3> QED BY <2>2, <3>6 DEF BufferInv
  <2> QED BY <2>4, <2>5
<1> QED BY <1>1, <1>5, <1>6, <1>7, <1>8

LEMMA BufferRunning ==
  ASSUME IInv, BufferInv, Running
  PROVE  BufferInv'
<1>1. call \in Calls
  BY Typed DEF IInv
<1>2. ASSUME NEW error \in Errors, Attempt(error)
      PROVE  BufferInv'
  <2>1. PICK tried : tried = Tried(error)
    OBVIOUS
  <2>2. tried.target = call.target /\ DOMAIN tried = DOMAIN call
    BY <1>1, <2>1 DEF Tried, Calls
  <2>3. call'.target = call.target
    <3>1. CASE Accepts(error)
      <4>1. PICK pc : call' = [tried EXCEPT !.pc = pc]
        BY <1>2, <2>1, <3>1 DEF Attempt
      <4> QED BY <2>2, <4>1
    <3>2. CASE ~Accepts(error)
      <4>1. PICK smaller, pc : call' = [tried EXCEPT !.step = smaller, !.pc = pc]
        BY <1>2, <2>1, <3>2 DEF Attempt
      <4> QED BY <2>2, <4>1
    <3> QED BY <3>1, <3>2
  <2>4. UNCHANGED <<setup, workspace, starved>> /\ call.pc = "explicit"
    BY <1>2 DEF Attempt, Buffers, At
  <2> QED BY <2>3, <2>4, BuffersKept
<1>3. ASSUME NEW n \in 1..Iterations, NEW converged \in BOOLEAN, Iterate(n, converged)
      PROVE  BufferInv'
  <2>1. UNCHANGED <<setup, workspace, starved>> /\ call.pc = "implicit"
    BY <1>3 DEF Iterate, Buffers, At
  <2>2. call'.target = call.target
    BY <1>1, <1>3 DEF Iterate, Calls
  <2> QED BY <2>1, <2>2, BuffersKept
<1>4. ASSUME NEW n, AttemptFails(n)
      PROVE  BufferInv'
  <2>1. UNCHANGED <<setup, workspace, starved>> /\ call'.pc = "return"
    BY <1>1, <1>4 DEF AttemptFails, Buffers, Calls
  <2> QED BY <2>1, BuffersKept
<1>5. CASE Finish \/ QuadratureEnd \/ EtdRefuses \/ Cleanup \/ EtdEnd
  <2>1. UNCHANGED <<setup, workspace, starved>>
    BY <1>5 DEF Finish, QuadratureEnd, EtdRefuses, Cleanup, EtdEnd, Buffers
  <2>2. call'.pc = "return"
    BY <1>1, <1>5 DEF Finish, QuadratureEnd, EtdRefuses, Cleanup, EtdEnd, Calls
  <2> QED BY <2>1, <2>2, BuffersKept
<1>6. CASE Return
  <2>1. UNCHANGED <<setup, workspace, starved>> /\ call'.pc = "idle"
    BY <1>6 DEF Return, Buffers, NoCall
  <2> QED BY <2>1, BuffersKept
<1>7. CASE \/ \E d \in InnerDts : NodeBegin(d)
           \/ EtdBegin \/ StageSkip
           \/ \E d \in InnerDts \cup MinDt..MaxDt : StageBegin(d)
  <2>1. UNCHANGED <<setup, workspace, starved>> /\ call.pc \notin {"idle", "return"}
    BY <1>7 DEF NodeBegin, EtdBegin, StageSkip, StageBegin, InStages, Buffers, At
  <2>2. call'.target = call.target
    BY <1>1, <1>7 DEF NodeBegin, EtdBegin, StageSkip, StageBegin, Calls
  <2> QED BY <2>1, <2>2, BuffersKept
<1>8. ASSUME NEW ok \in BOOLEAN, NodeEnd(ok) \/ StageEnd(ok)
      PROVE  BufferInv'
  <2>1. UNCHANGED <<setup, workspace, starved>> /\ call.pc \notin {"idle", "return"}
    BY <1>8 DEF NodeEnd, StageEnd, Buffers, At
  <2>2. call'.target = call.target
    BY <1>1, <1>8 DEF NodeEnd, StageEnd, Calls
  <2> QED BY <2>1, <2>2, BuffersKept
<1> QED BY <1>2, <1>3, <1>4, <1>5, <1>6, <1>7, <1>8 DEF Running

LEMMA BufferStep == IInv /\ BufferInv /\ [Next]_vars => BufferInv'
<1>1. ASSUME BufferInv, UNCHANGED vars
      PROVE  BufferInv'
  BY <1>1 DEF vars, BufferInv, Excused, Method
<1> QED BY <1>1, BufferCalling, BufferRunning DEF Next

\* For any number of steps on fields of any lengths and representations, with allocations
\* that fail in between, a scheme works on buffers as large as its field: the length that
\* integrator_ensure_workspace keeps is one that every allocated buffer has, unless a
\* resize has failed half-way or the hint of integrator_configure exceeds a field.
THEOREM BuffersAreLargeEnough == Spec => []BuffersFit
<1>1. BufferInv => BuffersFit
  BY DEF BufferInv, Excused, BuffersFit
<1> QED BY <1>1, BufferInit, BufferStep, StepInvariant, PTL DEF Spec
==============================================================================
