---------------------------- MODULE MC_AsyncLogger ----------------------------
(* Instances of AsyncLogger for TLC.                                       *)
EXTENDS AsyncLogger, TLC

CONSTANTS P1, P2

OneProducer == {P1}
TwoProducers == {P1, P2}
===============================================================================
