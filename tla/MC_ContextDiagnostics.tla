------------------------- MODULE MC_ContextDiagnostics -------------------------
(* A short history and few calls in any order. *)
EXTENDS ContextDiagnostics

Kinds == {"cpu", "metal"}
================================================================================
