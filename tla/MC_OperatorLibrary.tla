------------------------- MODULE MC_OperatorLibrary -------------------------
(* The whole operator library in a context of six fields. *)
EXTENDS OperatorTables, TLC

CONSTANTS p1, p2, p3, \* planes, of reals
          q,          \* a plane of as many complex numbers
          line,       \* a line of more complex numbers
          cube        \* a field of as many reals in three dimensions

\* The table has a name of its own so that TLC evaluates it once: the body of the
\* definition given to a constant is evaluated at each use.
AllKinds == Stimuli @@ NoiseStimuli @@ FieldOperators @@ SiteOperators
MCKinds == AllKinds

\* The operator that registers more than one substep, which an add that fails may leave.
Mixers == [k \in {"mixer"} |-> FieldOperators[k]]
MCMixers == Mixers

MCFields == {p1, p2, p3, q, line, cube}
MCRank == [f \in MCFields |-> CASE f = line -> 1 [] f = cube -> 3 [] OTHER -> 2]
MCSize == [f \in MCFields |-> IF f = line THEN 2 ELSE 1]
MCComplex == [f \in MCFields |-> f \in {q, line}]
MCSymmetry == Permutations({p1, p2, p3})
=============================================================================
