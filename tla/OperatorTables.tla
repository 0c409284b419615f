--------------------------- MODULE OperatorTables ---------------------------
(***************************************************************************)
(* The operators of core/src/operators as the kinds OperatorLibrary runs:  *)
(* whatever set of them a context is given, each is the one of its table.  *)
(***************************************************************************)
EXTENDS OperatorLibrary, OperatorsStimulus, OperatorsNoise, OperatorsFields, OperatorsSites

Entry(k) == CASE k \in DOMAIN Stimuli        -> Stimuli[k]
              [] k \in DOMAIN NoiseStimuli   -> NoiseStimuli[k]
              [] k \in DOMAIN FieldOperators -> FieldOperators[k]
              [] k \in DOMAIN SiteOperators  -> SiteOperators[k]

Library == [k \in DOMAIN Stimuli \cup DOMAIN NoiseStimuli \cup DOMAIN FieldOperators
                    \cup DOMAIN SiteOperators |-> Entry(k)]

ASSUME TableAssumption == \A k \in DOMAIN Kinds : k \in DOMAIN Library /\ Kinds[k] = Library[k]
=============================================================================
