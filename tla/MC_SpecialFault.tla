---------------------------- MODULE MC_SpecialFault ----------------------------
(* Two threads that share a context, with faults and fallbacks to tell apart. *)
EXTENDS SpecialFault

CONSTANTS t1, t2, r1, r2, f1, f2

MCThreads == {t1, t2}
MCReports == {r1, r2}
MCFallbacks == {f1, f2}
================================================================================
