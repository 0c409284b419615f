----------------------------- MODULE StaticCache -----------------------------
(***************************************************************************)
(* The cache of samples that stimuli at rest keep between steps,           *)
(* core/src/operators/stimulus/static_cache.c, as a value and operators on *)
(* it.  The samples themselves are left out: kept are the sizes of the two *)
(* planes, the layout the cache believes to hold, and which planes hold    *)
(* the samples of the present configuration in that layout.                *)
(***************************************************************************)
EXTENDS Naturals

\* A layout is a pair of a rank and a number of elements; <<0, 0>> is none.
NoLayout == <<0, 0>>
Count(layout) == layout[2]

Planes == {"real", "imag"}

\* real is the capacity; a plane that has not been allocated has size 0.
EmptyCache == [real |-> 0, imag |-> 0, layout |-> NoLayout, valid |-> FALSE, current |-> {}]

\* A mutant: the cache stays valid.
InvalidatedNever(cache) == cache

\* sim_stimulus_static_cache_invalidate: the storage stays.
Invalidated(cache) == [cache EXCEPT !.valid = FALSE, !.layout = NoLayout]

Matches(cache, layout, need_imag) == /\ cache.valid
                                     /\ cache.layout = layout
                                     /\ need_imag => cache.imag # 0
                                     /\ cache.real # 0

\* A mutant: the first plane, too, is allocated only where there is none.
GrownOnce(cache, layout, need_imag) ==
  [cache EXCEPT !.real = IF @ = 0 THEN Count(layout) ELSE @,
                !.imag = IF need_imag /\ @ = 0 THEN Count(layout) ELSE @]

\* The storage once it has been made large enough.
Grown(cache, layout, need_imag) ==
  [cache EXCEPT !.real = IF @ < Count(layout) THEN Count(layout) ELSE @,
                !.imag = IF need_imag /\ @ = 0 THEN Count(layout) ELSE @]

\* The planes a fill writes.
Filled(need_imag) == IF need_imag THEN Planes ELSE {"real"}

\* sim_stimulus_static_cache_ensure.
Ensured(cache, layout, need_imag) ==
  IF Matches(cache, layout, need_imag) THEN cache
  ELSE [Grown(cache, layout, need_imag) EXCEPT !.layout = layout, !.valid = TRUE,
                                               !.current = Filled(need_imag)]

\* One that finds no memory for the second plane: the first may have grown.
EnsureFailed(cache, layout, need_imag) ==
  IF Matches(cache, layout, need_imag) \/ ~need_imag \/ cache.imag # 0 THEN cache
  ELSE Grown(cache, layout, FALSE)

\* The fill would write beyond the end of the second plane.
Overruns(cache, layout, need_imag) ==
  /\ ~Matches(cache, layout, need_imag)
  /\ need_imag
  /\ Grown(cache, layout, need_imag).imag < Count(layout)
==============================================================================
