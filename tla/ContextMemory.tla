---------------------------- MODULE ContextMemory ----------------------------
(***************************************************************************)
(* The memory accounting of a simulation context (core/src/sim_context.c): *)
(* the field table, its byte counter, the scratch reserved by split        *)
(* operators and by the flux lens, and the limits on all of them.          *)
(*                                                                         *)
(* Fields are appended by sim_context_add_field and grow when              *)
(* sim_context_prepare_complex_fields promotes a real field that a caller  *)
(* has marked complex.  That loop is one step per field, because any of    *)
(* its promotions may fail after earlier ones have been made.  A context   *)
(* is used by one thread, so nothing runs between the steps of the loop.   *)
(***************************************************************************)
EXTENDS Naturals, Sequences, FiniteSets

CONSTANTS Elements,      \* element counts of the fields callers add
          RealBytes,     \* sizeof(double)
          ComplexBytes,  \* sizeof(SimComplexDouble)
          SizeMax,       \* SIZE_MAX
          LimitChoices,  \* the limits callers configure, 0 for no limit
          Splits,        \* split operators that reserve scratch
          ScratchSizes,  \* scratch sizes of split operators
          LensLengths,   \* lengths the flux lens is given
          StateBytes, WorkBytes,   \* scratch per element of its two buffers
          MaxFieldCount  \* bound on the number of fields

LensBuffers == {"lens_state", "lens_workspace"}
Holders == Splits \cup LensBuffers
LimitRecords == [max_fields : Nat, max_field_elements : Nat, max_field_bytes : Nat,
                 max_total_field_bytes : Nat, max_scratch_bytes_per_operator : Nat]

ASSUME MemoryAssumption ==
  /\ Elements \subseteq Nat \ {0}
  /\ RealBytes \in Nat \ {0} /\ ComplexBytes \in Nat /\ RealBytes < ComplexBytes
  /\ SizeMax \in Nat
  /\ LimitChoices \subseteq LimitRecords
  /\ ScratchSizes \subseteq Nat \ {0}
  /\ LensLengths \subseteq Nat
  /\ StateBytes \in Nat /\ WorkBytes \in Nat
  /\ MaxFieldCount \in Nat
  /\ Splits \cap LensBuffers = {}

VARIABLES fields,        \* context->world.fields
          bytesFields,   \* bytes_fields_in_use
          bytesScratch,  \* bytes_scratch_in_use
          bytesTotal,    \* bytes_total_in_use
          limits,        \* memory_limits
          held,          \* scratch each holder remembers having reserved
          next,          \* field the promotion loop looks at, 0 outside it
          result         \* outcome of the last loop, "none" once it is stale

vars == <<fields, bytesFields, bytesScratch, bytesTotal, limits, held, next, result>>

\* A field: its element count, whether its storage is complex, and whether it is
\* marked as one that must behave as complex.
FieldRecords == [elements : Nat \ {0}, complex : BOOLEAN, marked : BOOLEAN]

-------------------------------------------------------------------------------
Init == /\ fields = << >>
        /\ bytesFields = 0
        /\ bytesScratch = 0
        /\ bytesTotal = 0
        /\ limits \in LimitChoices
        /\ held = [h \in Holders |-> 0]
        /\ next = 0
        /\ result = "none"

SetMemoryLimits(l) ==
  /\ next = 0
  /\ limits' = l
  /\ UNCHANGED <<fields, bytesFields, bytesScratch, bytesTotal, held, next, result>>

-------------------------------------------------------------------------------
Bytes(elements, complex) == elements * (IF complex THEN ComplexBytes ELSE RealBytes)
FieldBytes(f) == Bytes(f.elements, f.complex)

Within(limit, value) == limit = 0 \/ value <= limit

\* sim_context_add_size does not overflow.
Fits(a, b) == a + b <= SizeMax

\* Mutant: the room left for the total is not looked at.
NoTotalCheck(elements, bytes) ==
  /\ Within(limits.max_field_elements, elements)
  /\ Within(limits.max_field_bytes, bytes)
  /\ limits.max_fields = 0 \/ Len(fields) < limits.max_fields
  /\ Within(limits.max_total_field_bytes, bytes)

CheckFieldLimits(elements, bytes) ==
  /\ Within(limits.max_field_elements, elements)
  /\ Within(limits.max_field_bytes, bytes)
  /\ limits.max_fields = 0 \/ Len(fields) < limits.max_fields
  /\ Within(limits.max_total_field_bytes, bytesFields + bytes)
  /\ Fits(bytesFields, bytes)

\* A refused field (limits, overflow, no memory for the tables) changes nothing.
AddField(elements, complex, marked) ==
  LET bytes == Bytes(elements, complex) IN
  /\ next = 0
  /\ Len(fields) < MaxFieldCount
  /\ CheckFieldLimits(elements, bytes)
  /\ Fits(bytesFields + bytes, bytesScratch)
  /\ fields' = Append(fields, [elements |-> elements, complex |-> complex,
                               marked |-> marked])
  /\ bytesFields' = bytesFields + bytes
  /\ bytesTotal' = bytesFields + bytes + bytesScratch
  /\ result' = "none"
  /\ UNCHANGED <<bytesScratch, limits, held, next>>

\* A caller sets complex_mode on a field of the context.
MarkComplex(k) ==
  /\ next = 0
  /\ ~fields[k].marked
  /\ fields' = [fields EXCEPT ![k].marked = TRUE]
  /\ result' = "none"
  /\ UNCHANGED <<bytesFields, bytesScratch, bytesTotal, limits, held, next>>

-------------------------------------------------------------------------------
\* sim_context_prepare_complex_fields.
PrepareBegin == /\ next = 0
                /\ next' = 1
                /\ result' = "none"
                /\ UNCHANGED <<fields, bytesFields, bytesScratch, bytesTotal, limits, held>>

NeedsPromotion(f) == f.marked /\ ~f.complex

\* Mutant: the room taken by the field's old storage is not given back.
OldBytesKept(f) == bytesFields + Bytes(f.elements, TRUE)

\* The field counter once f is promoted.
PromotedBytes(f) == (bytesFields - FieldBytes(f)) + Bytes(f.elements, TRUE)

\* What the checks before the promotion of f return.
PromotionVerdict(f) ==
  LET bytes == Bytes(f.elements, TRUE) IN
  IF ~Within(limits.max_field_elements, f.elements) \/ ~Within(limits.max_field_bytes, bytes)
    THEN "OUT_OF_MEMORY"
  ELSE IF bytesFields < FieldBytes(f) THEN "INVALID_STATE"
  ELSE IF \/ ~Within(limits.max_total_field_bytes, PromotedBytes(f))
          \/ ~Fits(PromotedBytes(f), bytesScratch) THEN "OUT_OF_MEMORY"
  ELSE "OK"

SkipField == /\ next \in DOMAIN fields
             /\ ~NeedsPromotion(fields[next])
             /\ next' = next + 1
             /\ UNCHANGED <<fields, bytesFields, bytesScratch, bytesTotal, limits, held, result>>

\* sim_field_require_complex succeeds and the counters follow.
PromoteField ==
  /\ next \in DOMAIN fields
  /\ NeedsPromotion(fields[next])
  /\ PromotionVerdict(fields[next]) = "OK"
  /\ fields' = [fields EXCEPT ![next].complex = TRUE]
  /\ bytesFields' = PromotedBytes(fields[next])
  /\ bytesTotal' = PromotedBytes(fields[next]) + bytesScratch
  /\ next' = next + 1
  /\ UNCHANGED <<bytesScratch, limits, held, result>>

\* The checks refuse the promotion and the call returns.
RefusePromotion == /\ next \in DOMAIN fields
                   /\ NeedsPromotion(fields[next])
                   /\ PromotionVerdict(fields[next]) # "OK"
                   /\ next' = 0
                   /\ result' = PromotionVerdict(fields[next])
                   /\ UNCHANGED <<fields, bytesFields, bytesScratch, bytesTotal, limits, held>>

\* sim_field_require_complex fails: no memory, or a layout it does not convert.
PromotionFails == /\ next \in DOMAIN fields
                  /\ NeedsPromotion(fields[next])
                  /\ PromotionVerdict(fields[next]) = "OK"
                  /\ next' = 0
                  /\ result' = "PROMOTION_FAILED"
                  /\ UNCHANGED <<fields, bytesFields, bytesScratch, bytesTotal, limits, held>>

PrepareEnd == /\ next = Len(fields) + 1
              /\ next' = 0
              /\ result' = "OK"
              /\ UNCHANGED <<fields, bytesFields, bytesScratch, bytesTotal, limits, held>>

-------------------------------------------------------------------------------
\* Mutant: the total is not checked for overflow.
ReservableAlone(s, n) == Fits(s, n)

\* sim_context_reserve_scratch of n bytes on top of a scratch counter s.
Reservable(s, n) == Fits(s, n) /\ Fits(bytesFields, s + n)

\* sim_context_release_scratch of n bytes: the counter stops at zero.
Released(s, n) == IF n >= s THEN 0 ELSE s - n

\* The total that goes with a released scratch counter.
TotalAfterRelease(s) == IF Fits(bytesFields, s) THEN bytesFields + s ELSE SizeMax

\* A split operator is registered with n bytes of scratch.
SplitReserve(h, n) ==
  /\ next = 0
  /\ held[h] = 0
  /\ Within(limits.max_scratch_bytes_per_operator, n)
  /\ Reservable(bytesScratch, n)
  /\ held' = [held EXCEPT ![h] = n]
  /\ bytesScratch' = bytesScratch + n
  /\ bytesTotal' = bytesFields + (bytesScratch + n)
  /\ UNCHANGED <<fields, bytesFields, limits, next, result>>

\* Its registration fails, or its last substep is destroyed.
SplitRelease(h) ==
  /\ next = 0
  /\ held[h] > 0
  /\ held' = [held EXCEPT ![h] = 0]
  /\ bytesScratch' = Released(bytesScratch, held[h])
  /\ bytesTotal' = TotalAfterRelease(bytesScratch')
  /\ UNCHANGED <<fields, bytesFields, limits, next, result>>

\* A lens buffer that holds a bytes is resized to b bytes, by the difference.
Resizable(s, a, b) == b > a => Reservable(s, b - a)
Resized(s, a, b) == IF b > a THEN s + (b - a) ELSE Released(s, a - b)

\* flux_lens_ensure_capacity resizes the state buffers, then the workspace; when
\* the second cannot be had the first keeps its new size.  Length zero releases.
LensResize(length) ==
  LET a == held["lens_state"]
      b == StateBytes * length
      c == held["lens_workspace"]
      d == WorkBytes * length
      s == Resized(bytesScratch, a, b)
  IN /\ next = 0
     /\ Resizable(bytesScratch, a, b)
     /\ \/ /\ Resizable(s, c, d)
           /\ held' = [held EXCEPT !["lens_state"] = b, !["lens_workspace"] = d]
           /\ bytesScratch' = Resized(s, c, d)
        \/ /\ length > 0
           /\ held' = [held EXCEPT !["lens_state"] = b]
           /\ bytesScratch' = s
     /\ bytesTotal' = TotalAfterRelease(bytesScratch')
     /\ UNCHANGED <<fields, bytesFields, limits, next, result>>

-------------------------------------------------------------------------------
\* sim_context_destroy, after which the context may be initialised again.
Destroy == /\ next = 0
           /\ fields' = << >>
           /\ bytesFields' = 0
           /\ bytesScratch' = 0
           /\ bytesTotal' = 0
           /\ held' = [h \in Holders |-> 0]
           /\ result' = "none"
           /\ UNCHANGED <<limits, next>>

Prepare == PrepareBegin \/ SkipField \/ PromoteField \/ RefusePromotion
           \/ PromotionFails \/ PrepareEnd

Next == \/ \E l \in LimitChoices : SetMemoryLimits(l)
        \/ \E n \in Elements, c, m \in BOOLEAN : AddField(n, c, m)
        \/ \E k \in DOMAIN fields : MarkComplex(k)
        \/ Prepare
        \/ \E h \in Splits : (\E n \in ScratchSizes : SplitReserve(h, n)) \/ SplitRelease(h)
        \/ \E n \in LensLengths : LensResize(n)
        \/ Destroy

Spec == Init /\ [][Next]_vars

-------------------------------------------------------------------------------
TypeOK ==
  /\ fields \in Seq(FieldRecords)
  /\ bytesFields \in Nat /\ bytesScratch \in Nat /\ bytesTotal \in Nat
  /\ limits \in LimitRecords
  /\ held \in [Holders -> Nat]
  /\ next \in 0 .. Len(fields) + 1
  /\ result \in {"none", "OK", "OUT_OF_MEMORY", "INVALID_STATE", "PROMOTION_FAILED"}

\* The bytes of a family of blocks of the given sizes, each as a block and a place.
Storage(size) == UNION { {x} \X (1 .. size[x]) : x \in DOMAIN size }
FieldSizes == [k \in DOMAIN fields |-> FieldBytes(fields[k])]

\* bytes_fields_in_use is the number of bytes in the fields the context owns, through
\* every addition and every promotion, also when a promotion loop stops half-way (lines
\* 2199-2265), and bytes_scratch_in_use is what the split operators and the lens
\* buffers have reserved and not released: hence the loop never returns INVALID_STATE,
\* and the saturating release never saturates early.
BytesCounted ==
  /\ bytesFields = Cardinality(Storage(FieldSizes))
  /\ bytesScratch = Cardinality(Storage(held))
  /\ result # "INVALID_STATE"

\* bytes_total_in_use is the sum of the two counters and never exceeds SIZE_MAX:
\* no caller needs the SIZE_MAX escape of sim_context_release_scratch.
CountersAgree == /\ bytesTotal = bytesFields + bytesScratch
                 /\ bytesTotal <= SizeMax

\* A step that adds or promotes a field leaves it, and the sum over all fields,
\* within the limits in force; lowering a limit evicts nothing.
GrowthWithinLimits ==
  [][ /\ bytesFields' > bytesFields => Within(limits.max_total_field_bytes, bytesFields')
      /\ \A k \in DOMAIN fields' :
           (k \notin DOMAIN fields \/ fields'[k].complex # fields[k].complex) =>
             /\ Within(limits.max_field_bytes, FieldBytes(fields'[k]))
             /\ Within(limits.max_field_elements, fields'[k].elements)
    ]_vars

\* When the promotion loop returns OK every field marked complex has complex
\* storage, until a field is added or marked (what the kernels rely on).
PreparedFieldsAreComplex ==
  result = "OK" => \A k \in DOMAIN fields : ~NeedsPromotion(fields[k])

\* Inductive form of PreparedFieldsAreComplex: the loop leaves no field behind it
\* that still needs promotion.
LoopInv == \A k \in DOMAIN fields : k < next => ~NeedsPromotion(fields[k])
IInv == TypeOK /\ CountersAgree /\ LoopInv /\ PreparedFieldsAreComplex
===============================================================================
