------------------------------ MODULE StepHistory ------------------------------
(***************************************************************************)
(* What the history of step metrics promises: the latest samples, as many  *)
(* as it keeps, from the oldest to the newest.  Samples are recorded for   *)
(* steps that do not go back.                                              *)
(***************************************************************************)
EXTENDS Naturals, Sequences

CONSTANTS History,   \* SIM_STEP_METRIC_HISTORY
          Samples    \* what a sample holds beside its step

VARIABLES recent     \* the samples a caller with enough room is given

Metrics == [step : Nat, sample : Samples]

Init == recent = << >>

Appended(m) == Append(IF Len(recent) < History THEN recent ELSE Tail(recent), m)

Newest == recent'[Len(recent')]

Record == /\ recent' # << >> /\ Newest \in Metrics
          /\ recent' = Appended(Newest)
          /\ recent # << >> => recent[Len(recent)].step <= Newest.step

Spec == Init /\ [][Record]_recent
================================================================================
