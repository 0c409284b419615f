------------------------------- MODULE StepSize -------------------------------
(***************************************************************************)
(* The step size control that the integrators share,                       *)
(* integrators/src/integrator.c.  A timestep is a whole number of units,   *)
(* zero for a request that is not positive, or NaN.  How large an error is *)
(* does not matter, only on which side of the tolerance it lies, and that  *)
(* it may not be a number: the factor an error leads to is any one in the  *)
(* range of such errors.                                                   *)
(***************************************************************************)
EXTENDS Integers

CONSTANTS MinDt, MaxDt   \* integrator->min_dt and max_dt; integrator_configure
                         \* makes the second larger than the first

ASSUME DtAssumption == /\ MinDt \in Nat \ {0} /\ MaxDt \in Nat
                       /\ MinDt < MaxDt

NaN == -1
Dts == Nat \cup {NaN}
Errors == {"small", "large", "nan"}

\* Comparisons with NaN are false.
Above(d, e) == d # NaN /\ e # NaN /\ d > e
AtMost(d, e) == d # NaN /\ e # NaN /\ d <= e

Max(d, e) == IF d > e THEN d ELSE e

integrator_clamp_dt(d) == IF d = NaN THEN NaN
                          ELSE IF d < MinDt THEN MinDt
                          ELSE IF d > MaxDt THEN MaxDt ELSE d

\* The factors are in twentieths: INTEGRATOR_MIN_SHRINK, INTEGRATOR_MAX_GROWTH, and
\* between them the one of an error at the tolerance, which is safety.
Shrink == 5
Growth == 40
AtTolerance(safety) == IF safety < Shrink THEN Shrink
                       ELSE IF safety > Growth THEN Growth ELSE safety
Scaled(d, factor) == (factor * d) \div 20

\* safety * 0.5 * d
Halved(d, safety) == (safety * d) \div 40

\* The results integrator_suggest_dt may have for an error.
integrator_suggest_dt(d, error, adaptive, safety) ==
  IF ~adaptive THEN { integrator_clamp_dt(d) }
  ELSE IF error = "nan" \/ d = NaN THEN { NaN }
  ELSE { integrator_clamp_dt(s) : s \in
           IF error = "small" THEN Scaled(d, AtTolerance(safety)) .. Scaled(d, Growth)
                              ELSE Scaled(d, Shrink) .. Scaled(d, AtTolerance(safety)) }

\* A mutant: a suggestion that is not smaller is taken.
TakeSuggestion(d, suggested, safety) ==
  IF ~Above(d, MinDt) \/ suggested = NaN THEN MinDt ELSE integrator_clamp_dt(suggested)

\* integrator_reject_dt once it has a suggestion: half the step, shortened by the
\* safety factor if that makes it shorter, when the suggestion is not smaller.
integrator_reject_dt(d, suggested, safety) ==
  LET half == d \div 2
      fallback == IF Halved(d, safety) \in 1..(d - 1) THEN Halved(d, safety) ELSE half
      smaller == IF AtMost(1, suggested) /\ Above(d, suggested) THEN suggested ELSE fallback
      bounded == Max(MinDt, smaller)
  IN IF ~Above(d, MinDt) THEN MinDt
     ELSE integrator_clamp_dt(IF bounded >= d THEN Max(MinDt, half) ELSE bounded)
===============================================================================
