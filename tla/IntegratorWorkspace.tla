-------------------------- MODULE IntegratorWorkspace --------------------------
(***************************************************************************)
(* The scratch buffers of an integrator, as a value and operators on it,   *)
(* integrators/src/integrator.c.  Sizes are in real numbers; a buffer that *)
(* has not been allocated has size 0.                                      *)
(***************************************************************************)
EXTENDS Naturals, Sequences

NoWorkspace == [sizes |-> << >>, elements |-> 0, element_size |-> 1]

\* The table of buffers grows first; the new ones are not allocated.
Padded(sizes, n) == [i \in 1..(IF Len(sizes) < n THEN n ELSE Len(sizes)) |->
                       IF i <= Len(sizes) THEN sizes[i] ELSE 0]

NeedsResize(w, elements, element_size) == \/ w.elements < elements
                                          \/ w.element_size # element_size

\* The sizes once the buffers in I have been looked at: all of them are replaced, or
\* those that are missing are allocated.
Allocated(w, n, elements, element_size, I) ==
  LET sizes == Padded(w.sizes, n)
      replaced(i) == NeedsResize(w, elements, element_size) \/ sizes[i] = 0
  IN [i \in DOMAIN sizes |-> IF i \in I /\ replaced(i) THEN elements * element_size
                                                       ELSE sizes[i]]

\* A mutant: a change of representation alone does not replace the buffers.
EnsureByLength(w, n, elements, element_size) ==
  LET all == DOMAIN Padded(w.sizes, n)
      kept == [w EXCEPT !.element_size = element_size]
  IN [sizes |-> Allocated(kept, n, elements, element_size, all),
      elements |-> IF w.elements < elements THEN elements ELSE w.elements,
      element_size |-> element_size]

\* integrator_ensure_workspace.
Ensured(w, n, elements, element_size) ==
  LET all == DOMAIN Padded(w.sizes, n)
      resized == NeedsResize(w, elements, element_size)
  IN [sizes |-> Allocated(w, n, elements, element_size, all),
      elements |-> IF resized THEN elements ELSE w.elements,
      element_size |-> element_size]

\* One that finds no memory for the i-th buffer: those before it have been replaced,
\* what is known about all of them has not.
EnsureFails(w, n, elements, element_size, i) ==
  [w EXCEPT !.sizes = Allocated(w, n, elements, element_size, 1..(i - 1))]

Fits(w, n, elements, element_size) ==
  /\ Len(w.sizes) >= n
  /\ \A i \in 1..n : w.sizes[i] >= elements * element_size
================================================================================
