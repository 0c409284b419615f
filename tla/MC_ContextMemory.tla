---------------------------- MODULE MC_ContextMemory ----------------------------
(* An instance of ContextMemory for TLC.                                    *)
EXTENDS ContextMemory

LimitRecord(n, e, b, t, s) ==
  [max_fields |-> n, max_field_elements |-> e, max_field_bytes |-> b,
   max_total_field_bytes |-> t, max_scratch_bytes_per_operator |-> s]

\* No limit at all; a tight total; tight limits per field and per operator.
SomeLimits == { LimitRecord(0, 0, 0, 0, 0), LimitRecord(2, 3, 6, 7, 2),
                LimitRecord(0, 2, 4, 8, 0) }
===============================================================================
