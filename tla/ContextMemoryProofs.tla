-------------------------- MODULE ContextMemoryProofs --------------------------
(***************************************************************************)
(* Proofs about ContextMemory, for every set of sizes and limits.          *)
(*                                                                         *)
(* IInv joins the type invariant, the agreement of the three counters, and *)
(* what the promotion loop has done so far: no field behind its cursor     *)
(* still needs promotion.  The counters are preserved action by action;    *)
(* a release needs the old total to know that the new one cannot overflow. *)
(* CountInv adds that they count the bytes of the fields and of the        *)
(* reservations.  A change of one block changes the number of bytes by the *)
(* difference (StorageChange), so no sum is unfolded.                      *)
(***************************************************************************)
EXTENDS ContextMemory, FiniteSetTheorems, TLAPS

\* The sizes of fields are naturals and a promotion makes a field larger.
LEMMA BytesType ==
  ASSUME NEW n \in Nat, NEW c \in BOOLEAN
  PROVE  Bytes(n, c) \in Nat
<1> USE MemoryAssumption DEF Bytes
<1>1. n * ComplexBytes \in Nat /\ n * RealBytes \in Nat
  OBVIOUS
<1> QED BY <1>1

\* The sum of two counters is a counter.
LEMMA SumNat ==
  ASSUME NEW a \in Nat, NEW b \in Nat
  PROVE  a + b \in Nat
OBVIOUS

\* Taking back the old size of a field and adding its new one.
LEMMA Rebalance ==
  ASSUME NEW a \in Nat, NEW b \in Nat, NEW c \in Nat, ~(a < b)
  PROVE  (a - b) + c \in Nat
OBVIOUS

\* Replacing one field of a field table leaves a field table of the same length.
LEMMA UpdateField ==
  ASSUME NEW t \in Seq(FieldRecords), NEW k \in DOMAIN t, NEW f \in FieldRecords
  PROVE  [t EXCEPT ![k] = f] \in Seq(FieldRecords) /\ Len([t EXCEPT ![k] = f]) = Len(t)
OBVIOUS

\* sim_context_release_scratch never makes the scratch counter larger.
LEMMA ReleasedShrinks ==
  ASSUME NEW s \in Nat, NEW n \in Nat
  PROVE  Released(s, n) \in Nat /\ Released(s, n) <= s
BY DEF Released

\* A resized lens buffer leaves a natural scratch counter, and one that still
\* fits together with the fields.
LEMMA ResizedFits ==
  ASSUME NEW s \in Nat, NEW a \in Nat, NEW b \in Nat,
         bytesFields \in Nat, bytesFields + s <= SizeMax,
         Resizable(s, a, b)
  PROVE  /\ Resized(s, a, b) \in Nat
         /\ bytesFields + Resized(s, a, b) <= SizeMax
<1> USE MemoryAssumption
<1>1. CASE b > a
  BY <1>1 DEF Resizable, Resized, Reservable, Fits
<1>2. CASE ~(b > a)
  <2>1. a - b \in Nat
    BY <1>2
  <2>2. Released(s, a - b) \in Nat /\ Released(s, a - b) <= s
    BY <2>1, ReleasedShrinks
  <2> QED BY <1>2, <2>2 DEF Resized
<1> QED BY <1>1, <1>2

LEMMA InitIInv == Init => IInv
BY MemoryAssumption DEF Init, IInv, TypeOK, CountersAgree, LoopInv, PreparedFieldsAreComplex,
   LimitRecords

LEMMA NextIInv == IInv /\ [Next]_vars => IInv'
<1> SUFFICES ASSUME IInv, [Next]_vars PROVE IInv'
  OBVIOUS
<1> USE MemoryAssumption DEF IInv
<1>1. CASE UNCHANGED vars
  BY <1>1 DEF vars, TypeOK, CountersAgree, LoopInv, PreparedFieldsAreComplex
<1>2. ASSUME NEW l \in LimitChoices, SetMemoryLimits(l) PROVE IInv'
  BY <1>2 DEF SetMemoryLimits, TypeOK, CountersAgree, LoopInv, PreparedFieldsAreComplex
<1>3. ASSUME NEW n \in Elements, NEW c \in BOOLEAN, NEW m \in BOOLEAN, AddField(n, c, m)
      PROVE IInv'
  <2> DEFINE f == [elements |-> n, complex |-> c, marked |-> m]
  <2>1. f \in FieldRecords
    BY DEF FieldRecords
  <2>2. Bytes(n, c) \in Nat
    BY BytesType
  <2>3. TypeOK'
    BY <1>3, <2>1, <2>2 DEF AddField, TypeOK
  <2>4. CountersAgree'
    BY <1>3, <2>2 DEF AddField, TypeOK, CountersAgree, Fits
  <2>5. LoopInv' /\ PreparedFieldsAreComplex'
    BY <1>3, <2>3 DEF AddField, TypeOK, LoopInv, PreparedFieldsAreComplex
  <2> QED BY <2>3, <2>4, <2>5
<1>4. ASSUME NEW k \in DOMAIN fields, MarkComplex(k) PROVE IInv'
  <2>1. fields' \in Seq(FieldRecords) /\ Len(fields') = Len(fields)
    <3>1. fields \in Seq(FieldRecords) /\ fields[k] \in FieldRecords
      BY DEF TypeOK
    <3>2. [fields[k] EXCEPT !.marked = TRUE] \in FieldRecords
      BY <3>1 DEF FieldRecords
    <3>3. fields' = [fields EXCEPT ![k] = [fields[k] EXCEPT !.marked = TRUE]]
      BY <1>4 DEF MarkComplex
    <3> QED BY <3>1, <3>2, <3>3, UpdateField
  <2> QED BY <1>4, <2>1
          DEF MarkComplex, TypeOK, CountersAgree, LoopInv, PreparedFieldsAreComplex
<1>5. ASSUME PrepareBegin PROVE IInv'
  BY <1>5 DEF PrepareBegin, TypeOK, CountersAgree, LoopInv, PreparedFieldsAreComplex
<1>6. ASSUME SkipField PROVE IInv'
  BY <1>6 DEF SkipField, TypeOK, CountersAgree, LoopInv, PreparedFieldsAreComplex
<1>7. ASSUME PromoteField PROVE IInv'
  <2> DEFINE f == fields[next]
  <2>1. f \in FieldRecords /\ next \in DOMAIN fields /\ next \in 1 .. Len(fields)
    BY <1>7 DEF PromoteField, TypeOK
  <2>2. f.elements \in Nat /\ f.complex \in BOOLEAN
    BY <2>1 DEF FieldRecords
  <2>3. Bytes(f.elements, TRUE) \in Nat /\ FieldBytes(f) \in Nat
    BY <2>2, BytesType DEF FieldBytes
  <2>4. ~(bytesFields < FieldBytes(f)) /\ Fits(PromotedBytes(f), bytesScratch)
    BY <1>7 DEF PromoteField, PromotionVerdict
  <2>5. PromotedBytes(f) \in Nat
    <3>1. bytesFields \in Nat
      BY DEF TypeOK
    <3> QED BY <2>3, <2>4, <3>1, Rebalance DEF PromotedBytes
  <2>6. fields' \in Seq(FieldRecords) /\ Len(fields') = Len(fields)
    <3>1. [f EXCEPT !.complex = TRUE] \in FieldRecords
      BY <2>1 DEF FieldRecords
    <3>2. fields' = [fields EXCEPT ![next] = [f EXCEPT !.complex = TRUE]]
      BY <1>7 DEF PromoteField
    <3> QED BY <2>1, <3>1, <3>2, UpdateField DEF TypeOK
  <2>7. TypeOK'
    BY <1>7, <2>1, <2>5, <2>6 DEF PromoteField, TypeOK
  <2>8. CountersAgree'
    BY <1>7, <2>4, <2>5 DEF PromoteField, TypeOK, CountersAgree, Fits
  <2>9. LoopInv'
    <3> SUFFICES ASSUME NEW k \in DOMAIN fields', k < next' PROVE ~NeedsPromotion(fields'[k])
      BY DEF LoopInv, NeedsPromotion
    <3>1. k \in DOMAIN fields /\ k \in Nat
      BY <2>6, <1>7 DEF TypeOK
    <3>2. CASE k = next
      BY <1>7, <2>1, <3>2 DEF PromoteField, NeedsPromotion, TypeOK, FieldRecords
    <3>3. CASE k # next
      <4>1. k < next
        BY <1>7, <3>1, <3>3, <2>1 DEF PromoteField
      <4> QED BY <1>7, <3>1, <3>3, <4>1 DEF PromoteField, LoopInv
    <3> QED BY <3>2, <3>3
  <2>10. PreparedFieldsAreComplex'
    <3> SUFFICES ASSUME result = "OK", NEW k \in DOMAIN fields'
                 PROVE ~NeedsPromotion(fields'[k])
      BY <1>7 DEF PromoteField, PreparedFieldsAreComplex, NeedsPromotion
    <3>1. FALSE
      BY <1>7 DEF PromoteField, PreparedFieldsAreComplex
    <3> QED BY <3>1
  <2> QED BY <2>7, <2>8, <2>9, <2>10
<1>8. ASSUME RefusePromotion PROVE IInv'
  <2>1. result' \in {"OUT_OF_MEMORY", "INVALID_STATE"}
    BY <1>8 DEF RefusePromotion, PromotionVerdict
  <2> QED BY <1>8, <2>1
          DEF RefusePromotion, TypeOK, CountersAgree, LoopInv, PreparedFieldsAreComplex
<1>9. ASSUME PromotionFails PROVE IInv'
  BY <1>9 DEF PromotionFails, TypeOK, CountersAgree, LoopInv, PreparedFieldsAreComplex
<1>10. ASSUME PrepareEnd PROVE IInv'
  <2>1. \A k \in DOMAIN fields : ~NeedsPromotion(fields[k])
    BY <1>10 DEF PrepareEnd, LoopInv, TypeOK
  <2> QED BY <1>10, <2>1
          DEF PrepareEnd, TypeOK, CountersAgree, LoopInv, PreparedFieldsAreComplex
<1>11. ASSUME NEW h \in Splits, NEW n \in ScratchSizes, SplitReserve(h, n) PROVE IInv'
  <2>1. TypeOK'
    BY <1>11 DEF SplitReserve, TypeOK, Holders
  <2>2. CountersAgree'
    BY <1>11 DEF SplitReserve, TypeOK, CountersAgree, Reservable, Fits
  <2> QED BY <1>11, <2>1, <2>2
          DEF SplitReserve, TypeOK, LoopInv, PreparedFieldsAreComplex
<1>12. ASSUME NEW h \in Splits, SplitRelease(h) PROVE IInv'
  <2>1. h \in Holders /\ held[h] \in Nat
    BY DEF TypeOK, Holders
  <2>2. bytesScratch' \in Nat /\ bytesScratch' <= bytesScratch
    BY <1>12, <2>1, ReleasedShrinks DEF SplitRelease, TypeOK
  <2>3. bytesTotal' = bytesFields + bytesScratch' /\ bytesTotal' <= SizeMax
    BY <1>12, <2>2 DEF SplitRelease, TotalAfterRelease, Fits, TypeOK, CountersAgree
  <2>4. TypeOK'
    BY <1>12, <2>1, <2>2, <2>3 DEF SplitRelease, TypeOK
  <2>5. CountersAgree'
    BY <1>12, <2>3 DEF SplitRelease, CountersAgree
  <2> QED BY <1>12, <2>4, <2>5 DEF SplitRelease, LoopInv, PreparedFieldsAreComplex
<1>13. ASSUME NEW n \in LensLengths, LensResize(n) PROVE IInv'
  <2> DEFINE a == held["lens_state"]
             b == StateBytes * n
             c == held["lens_workspace"]
             d == WorkBytes * n
             s == Resized(bytesScratch, a, b)
  <2>1. a \in Nat /\ c \in Nat
    BY DEF TypeOK, Holders, LensBuffers
  <2>2. b \in Nat /\ d \in Nat
    <3>1. n \in Nat
      OBVIOUS
    <3> QED BY <3>1
  <2>3. bytesFields \in Nat /\ bytesScratch \in Nat /\ bytesFields + bytesScratch <= SizeMax
    BY DEF TypeOK, CountersAgree
  <2> HIDE DEF b, d
  <2>4. s \in Nat /\ bytesFields + s <= SizeMax
    BY <1>13, <2>1, <2>2, <2>3, ResizedFits DEF LensResize, b
  <2>5. Resizable(s, c, d) => Resized(s, c, d) \in Nat /\ bytesFields + Resized(s, c, d) <= SizeMax
    BY <2>1, <2>2, <2>3, <2>4, ResizedFits
  <2>6. bytesScratch' \in Nat /\ bytesFields + bytesScratch' <= SizeMax
    BY <1>13, <2>4, <2>5 DEF LensResize, b, d
  <2>7. held' \in [Holders -> Nat]
    BY <1>13, <2>2 DEF LensResize, TypeOK, b, d
  <2>8. bytesTotal' = bytesFields + bytesScratch'
    BY <1>13, <2>6 DEF LensResize, TotalAfterRelease, Fits
  <2>9. UNCHANGED <<fields, bytesFields, limits, next, result>>
    BY <1>13 DEF LensResize
  <2>10. TypeOK'
    <3>1. bytesTotal' \in Nat
      <4>1. bytesFields + bytesScratch' \in Nat
        BY <2>3, <2>6, SumNat
      <4> QED BY <4>1, <2>8
    <3> QED BY <2>3, <2>6, <2>7, <2>9, <3>1 DEF TypeOK
  <2>11. CountersAgree'
    BY <2>6, <2>8, <2>9 DEF CountersAgree
  <2> QED BY <2>9, <2>10, <2>11 DEF LoopInv, PreparedFieldsAreComplex
<1>14. ASSUME Destroy PROVE IInv'
  BY <1>14 DEF Destroy, TypeOK, CountersAgree, LoopInv, PreparedFieldsAreComplex
<1> QED
  BY <1>1, <1>2, <1>3, <1>4, <1>5, <1>6, <1>7, <1>8, <1>9, <1>10, <1>11, <1>12, <1>13, <1>14
  DEF Next, Prepare

\* Every reachable state of the accounting satisfies the inductive invariant.
THEOREM MemoryInvariant == Spec => []IInv
<1>1. Init => IInv
  BY InitIInv
<1>2. IInv /\ [Next]_vars => IInv'
  BY NextIInv
<1> QED BY <1>1, <1>2, PTL DEF Spec

\* The total counter is the sum of the field and scratch counters and fits in a
\* size_t, whatever the sizes, the limits and the order of calls (sim_context.c).
THEOREM TotalsAgree == Spec => []CountersAgree
<1>1. IInv => CountersAgree
  BY DEF IInv
<1> QED BY <1>1, MemoryInvariant, PTL

\* A promotion loop that returns OK leaves no marked field with real storage.
THEOREM PreparationIsComplete == Spec => []PreparedFieldsAreComplex
<1>1. IInv => PreparedFieldsAreComplex
  BY DEF IInv
<1> QED BY <1>1, MemoryInvariant, PTL

\* Additions and promotions stay within the limits in force.
THEOREM GrowthRespectsLimits == Spec => GrowthWithinLimits
<1> DEFINE Kept ==
      /\ bytesFields' > bytesFields => Within(limits.max_total_field_bytes, bytesFields')
      /\ \A k \in DOMAIN fields' :
           (k \notin DOMAIN fields \/ fields'[k].complex # fields[k].complex) =>
             /\ Within(limits.max_field_bytes, FieldBytes(fields'[k]))
             /\ Within(limits.max_field_elements, fields'[k].elements)
<1>1. IInv /\ [Next]_vars => [Kept]_vars
  <2> SUFFICES ASSUME IInv, Next PROVE Kept
    OBVIOUS
  <2> USE MemoryAssumption DEF IInv
  <2>1. CASE fields' = fields /\ bytesFields' = bytesFields
    BY <2>1 DEF TypeOK
  <2>2. ASSUME NEW n \in Elements, NEW c \in BOOLEAN, NEW m \in BOOLEAN, AddField(n, c, m)
        PROVE Kept
    <3> DEFINE f == [elements |-> n, complex |-> c, marked |-> m]
    <3>1. f \in FieldRecords
      BY DEF FieldRecords
    <3>2. fields' = Append(fields, f) /\ fields \in Seq(FieldRecords)
      BY <2>2 DEF AddField, TypeOK
    <3>3. ASSUME NEW k \in DOMAIN fields',
                 k \notin DOMAIN fields \/ fields'[k].complex # fields[k].complex
          PROVE fields'[k] = f
      BY <3>1, <3>2, <3>3
    <3> QED BY <2>2, <3>3 DEF AddField, CheckFieldLimits, FieldBytes
  <2>3. ASSUME NEW k \in DOMAIN fields, MarkComplex(k) PROVE Kept
    <3>1. bytesFields' = bytesFields /\ DOMAIN fields' = DOMAIN fields
      BY <2>3 DEF MarkComplex
    <3>2. \A j \in DOMAIN fields : fields'[j].complex = fields[j].complex
      BY <2>3 DEF MarkComplex, TypeOK, FieldRecords
    <3> QED BY <3>1, <3>2 DEF TypeOK
  <2>4. ASSUME PromoteField PROVE Kept
    <3> DEFINE f == fields[next]
    <3>1. f \in FieldRecords /\ next \in DOMAIN fields
      BY <2>4 DEF PromoteField, TypeOK
    <3>2. DOMAIN fields' = DOMAIN fields
      BY <2>4 DEF PromoteField
    <3>3. fields'[next].elements = f.elements /\ fields'[next].complex = TRUE
      BY <2>4, <3>1 DEF PromoteField, FieldRecords
    <3>4. \A j \in DOMAIN fields : j # next => fields'[j] = fields[j]
      BY <2>4 DEF PromoteField
    <3>5. /\ Within(limits.max_field_elements, f.elements)
          /\ Within(limits.max_field_bytes, Bytes(f.elements, TRUE))
          /\ Within(limits.max_total_field_bytes, PromotedBytes(f))
      BY <2>4 DEF PromoteField, PromotionVerdict
    <3>6. FieldBytes(fields'[next]) = Bytes(f.elements, TRUE)
      BY <3>3 DEF FieldBytes
    <3>7. bytesFields' = PromotedBytes(f)
      BY <2>4 DEF PromoteField
    <3> QED BY <3>2, <3>3, <3>4, <3>5, <3>6, <3>7
  <2>5. ASSUME Destroy PROVE Kept
    BY <2>5 DEF Destroy, TypeOK
  <2> QED
    BY <2>1, <2>2, <2>3, <2>4, <2>5
    DEF Next, Prepare, SetMemoryLimits, PrepareBegin, SkipField, RefusePromotion,
        PromotionFails, PrepareEnd, SplitReserve, SplitRelease, LensResize
<1>2. Spec => [][Kept]_vars
  BY <1>1, MemoryInvariant, PTL DEF Spec
<1> QED BY <1>2 DEF GrowthWithinLimits
-------------------------------------------------------------------------------
\* A block of n bytes.
Block(x, n) == {x} \X (1 .. n)

\* It has n bytes.
LEMMA BlockSize ==
  ASSUME NEW x, NEW n \in Nat
  PROVE  IsFiniteSet(Block(x, n)) /\ Cardinality(Block(x, n)) = n
<1>1. IsFiniteSet({x}) /\ Cardinality({x}) = 1
  BY FS_Singleton
<1>2. IsFiniteSet(1 .. n) /\ Cardinality(1 .. n) = n
  BY FS_Interval
<1>3. /\ IsFiniteSet({x} \X (1 .. n))
      /\ Cardinality({x} \X (1 .. n)) = Cardinality({x}) * Cardinality(1 .. n)
  BY <1>1, <1>2, FS_Product
<1> QED BY <1>1, <1>2, <1>3 DEF Block

\* Two finite sets with nothing in common.
LEMMA DisjointSum ==
  ASSUME NEW S, IsFiniteSet(S), NEW T, IsFiniteSet(T), S \cap T = {}
  PROVE  /\ IsFiniteSet(S \cup T)
         /\ Cardinality(S \cup T) = Cardinality(S) + Cardinality(T)
<1>1. /\ IsFiniteSet(S \cup T)
      /\ Cardinality(S \cup T) = Cardinality(S) + Cardinality(T) - Cardinality(S \cap T)
  BY FS_Union
<1>2. Cardinality(S) \in Nat /\ Cardinality(T) \in Nat /\ Cardinality(S \cap T) = 0
  BY FS_CardinalityType, FS_EmptySet
<1> QED BY <1>1, <1>2

\* A block that is added, or whose size changes, changes the number of bytes by the
\* difference; none is larger than all together.
LEMMA StorageChange ==
  ASSUME NEW S, NEW x, NEW T, T = S \cup {x}, NEW f \in [S -> Nat], NEW g \in [T -> Nat],
         \A y \in S \ {x} : g[y] = f[y],
         IsFiniteSet(Storage(f)),
         NEW old \in Nat, x \in S => old = f[x], x \notin S => old = 0
  PROVE  /\ IsFiniteSet(Storage(g))
         /\ Cardinality(Storage(f)) \in Nat /\ old <= Cardinality(Storage(f))
         /\ Cardinality(Storage(g)) = (Cardinality(Storage(f)) - old) + g[x]
<1> DEFINE Rest == UNION { Block(y, f[y]) : y \in S \ {x} }
<1>1. /\ \A y : Block(y, 0) = {}
      /\ Storage(f) = Rest \cup Block(x, old)
  <2>1. Storage(f) = UNION { Block(y, f[y]) : y \in S }
    BY DEF Storage, Block
  <2>2. \A y : Block(y, 0) = {}
    BY DEF Block
  <2>3. CASE x \in S
    <3>1. \A b : b \in Storage(f) <=> \E y \in S : b \in Block(y, f[y])
      BY <2>1
    <3>2. \A b : b \in Rest <=> \E y \in S \ {x} : b \in Block(y, f[y])
      OBVIOUS
    <3>3. old = f[x]
      BY <2>3
    <3> HIDE DEF Rest
    <3>4. \A b : b \in Storage(f) <=> b \in Rest \/ b \in Block(x, old)
      BY <2>3, <3>1, <3>2, <3>3
    <3> QED BY <2>2, <3>4
  <2>4. CASE x \notin S
    BY <2>1, <2>2, <2>4
  <2> QED BY <2>2, <2>3, <2>4
<1>2. Storage(g) = Rest \cup Block(x, g[x])
  <2>1. Storage(g) = UNION { Block(y, g[y]) : y \in T }
    BY DEF Storage, Block
  <2> QED BY <2>1
<1>3. \A n \in Nat : Rest \cap Block(x, n) = {}
  BY DEF Block
<1>4. IsFiniteSet(Rest)
  BY <1>1, FS_Subset
<1> HIDE DEF Rest
<1>5. PICK n \in Nat : n = g[x]
  OBVIOUS
<1>6. Cardinality(Storage(f)) = Cardinality(Rest) + old
  BY <1>1, <1>3, <1>4, BlockSize, DisjointSum
<1>7. IsFiniteSet(Storage(g)) /\ Cardinality(Storage(g)) = Cardinality(Rest) + n
  <2>1. Storage(g) = Rest \cup Block(x, n)
    BY <1>2, <1>5
  <2>2. PICK B : B = Block(x, n)
    OBVIOUS
  <2>3. IsFiniteSet(B) /\ Cardinality(B) = n /\ Rest \cap B = {}
    BY <1>3, <2>2, BlockSize
  <2>4. /\ IsFiniteSet(Rest \cup B)
        /\ Cardinality(Rest \cup B) = Cardinality(Rest) + Cardinality(B)
    BY <1>4, <2>3, DisjointSum
  <2> QED BY <2>1, <2>2, <2>3, <2>4
<1>8. Cardinality(Rest) \in Nat
  BY <1>4, FS_CardinalityType
<1> QED BY <1>5, <1>6, <1>7, <1>8

\* Blocks of no size hold no bytes.
LEMMA StorageEmpty ==
  ASSUME NEW S, NEW f \in [S -> Nat], \A x \in S : f[x] = 0
  PROVE  IsFiniteSet(Storage(f)) /\ Cardinality(Storage(f)) = 0
<1>1. Storage(f) = {}
  BY DEF Storage
<1> QED BY <1>1, FS_EmptySet

\* The fields have sizes.
LEMMA SizesType ==
  ASSUME TypeOK
  PROVE  FieldSizes \in [DOMAIN fields -> Nat]
<1>1. ASSUME NEW k \in DOMAIN fields PROVE FieldBytes(fields[k]) \in Nat
  <2>1. fields[k] \in FieldRecords
    BY DEF TypeOK
  <2>2. fields[k].elements \in Nat /\ fields[k].complex \in BOOLEAN
    BY <2>1 DEF FieldRecords
  <2> QED BY <2>2, BytesType DEF FieldBytes
<1> QED BY <1>1 DEF FieldSizes

\* The byte counters count finitely many bytes.
CountInv == /\ \A f, h : FieldSizes = f /\ held = h =>
                 /\ IsFiniteSet(Storage(f)) /\ bytesFields = Cardinality(Storage(f))
                 /\ IsFiniteSet(Storage(h)) /\ bytesScratch = Cardinality(Storage(h))
            /\ result # "INVALID_STATE"

\* A holder that reserves b bytes instead of those it holds, which are counted.
LEMMA HolderChange ==
  ASSUME NEW h \in [Holders -> Nat], IsFiniteSet(Storage(h)),
         NEW x \in Holders, NEW b \in Nat,
         NEW g \in [Holders -> Nat], g[x] = b, \A y \in Holders \ {x} : g[y] = h[y]
  PROVE  /\ IsFiniteSet(Storage(g))
         /\ Cardinality(Storage(h)) \in Nat /\ h[x] <= Cardinality(Storage(h))
         /\ Cardinality(Storage(g)) = (Cardinality(Storage(h)) - h[x]) + b
<1>1. Holders = Holders \cup {x}
  OBVIOUS
<1>2. PICK old \in Nat : old = h[x]
  OBVIOUS
<1>3. /\ IsFiniteSet(Storage(g))
      /\ Cardinality(Storage(h)) \in Nat /\ old <= Cardinality(Storage(h))
      /\ Cardinality(Storage(g)) = (Cardinality(Storage(h)) - old) + g[x]
  BY <1>1, <1>2, StorageChange
<1> QED BY <1>2, <1>3

\* A resized buffer, whose old size was counted, leaves an exact counter.
LEMMA ResizedExactly ==
  ASSUME NEW s \in Nat, NEW a \in Nat, NEW b \in Nat, a <= s
  PROVE  Resized(s, a, b) = (s - a) + b
BY DEF Resized, Released

\* Every step preserves the counts: only what was counted is ever taken back.
LEMMA CountNext == IInv /\ CountInv /\ [Next]_vars => CountInv'
<1> SUFFICES ASSUME IInv, CountInv, [Next]_vars PROVE CountInv'
  OBVIOUS
<1>1. /\ TypeOK /\ bytesFields \in Nat /\ bytesScratch \in Nat /\ held \in [Holders -> Nat]
      /\ fields \in Seq(FieldRecords)
  BY DEF IInv, TypeOK
<1>2. FieldSizes \in [DOMAIN fields -> Nat]
  BY <1>1, SizesType
<1>3. /\ IsFiniteSet(Storage(FieldSizes)) /\ bytesFields = Cardinality(Storage(FieldSizes))
      /\ IsFiniteSet(Storage(held)) /\ bytesScratch = Cardinality(Storage(held))
      /\ result # "INVALID_STATE"
  BY DEF CountInv
<1>4. ASSUME UNCHANGED <<bytesFields, bytesScratch, held>>, FieldSizes' = FieldSizes,
             result' # "INVALID_STATE"
      PROVE  CountInv'
  BY <1>3, <1>4 DEF CountInv
<1>5. ASSUME UNCHANGED <<fields, bytesFields, result>>, NEW h, held' = h,
             IsFiniteSet(Storage(h)), bytesScratch' = Cardinality(Storage(h))
      PROVE  CountInv'
  <2>1. FieldSizes' = FieldSizes
    BY <1>5 DEF FieldSizes, FieldBytes, Bytes
  <2> QED BY <1>3, <1>5, <2>1 DEF CountInv
<1>6. ASSUME UNCHANGED <<bytesScratch, held>>, result' # "INVALID_STATE", NEW f, FieldSizes' = f,
             IsFiniteSet(Storage(f)), bytesFields' = Cardinality(Storage(f))
      PROVE  CountInv'
  BY <1>3, <1>6 DEF CountInv
<1>7. ASSUME UNCHANGED <<fields, bytesFields, bytesScratch, held>>, result' # "INVALID_STATE"
      PROVE  CountInv'
  BY <1>3, <1>5, <1>7, <1>4 DEF FieldSizes, FieldBytes, Bytes
<1>8. ASSUME next \in DOMAIN fields
      PROVE  /\ FieldBytes(fields[next]) \in Nat /\ FieldBytes(fields[next]) <= bytesFields
  <2>1. PICK k \in DOMAIN fields, n \in Nat :
          k = next /\ n = FieldBytes(fields[next]) /\ n = FieldSizes[k]
    BY <1>2, <1>8 DEF FieldSizes
  <2>2. n <= Cardinality(Storage(FieldSizes))
    BY <1>2, <1>3, <2>1, StorageChange
  <2> QED BY <1>3, <2>1, <2>2
<1>9. ASSUME NEW n \in Elements, NEW c \in BOOLEAN, NEW m \in BOOLEAN, AddField(n, c, m)
      PROVE  CountInv'
  <2> DEFINE r == [elements |-> n, complex |-> c, marked |-> m]
             x == Len(fields) + 1
  <2>1. n \in Nat /\ r \in FieldRecords
    BY MemoryAssumption DEF FieldRecords
  <2>2. PICK b \in Nat : b = Bytes(n, c)
    BY <2>1, BytesType
  <2>3. fields' = Append(fields, r) /\ bytesFields' = bytesFields + b
        /\ UNCHANGED <<bytesScratch, held>> /\ result' = "none"
    BY <1>9, <2>2 DEF AddField
  <2>4. /\ DOMAIN fields' = DOMAIN fields \cup {x} /\ x \notin DOMAIN fields
        /\ fields'[x] = r /\ \A k \in DOMAIN fields : fields'[k] = fields[k]
    BY <1>1, <2>1, <2>3
  <2>5. PICK g : g = FieldSizes'
    OBVIOUS
  <2> HIDE DEF x
  <2>6. /\ g = [k \in DOMAIN fields \cup {x} |-> FieldBytes(fields'[k])]
    BY <2>4, <2>5 DEF FieldSizes, FieldBytes, Bytes
  <2>7. g[x] = b
    BY <2>2, <2>4, <2>6 DEF FieldBytes
  <2>8. \A k \in DOMAIN fields : g[k] = FieldSizes[k]
    BY <2>4, <2>6 DEF FieldSizes
  <2>9. PICK T : T = DOMAIN fields \cup {x} /\ g \in [T -> Nat]
    BY <1>2, <2>6, <2>7, <2>8
  <2>10. /\ IsFiniteSet(Storage(g))
         /\ Cardinality(Storage(g)) = (Cardinality(Storage(FieldSizes)) - 0) + g[x]
    BY <1>2, <1>3, <2>4, <2>8, <2>9, StorageChange
  <2>11. bytesFields' = Cardinality(Storage(g))
    BY <1>1, <1>3, <2>3, <2>7, <2>10
  <2> QED BY <1>6, <2>3, <2>5, <2>10, <2>11
<1>10. ASSUME NEW j \in DOMAIN fields, MarkComplex(j)
       PROVE  CountInv'
  <2>1. /\ DOMAIN fields' = DOMAIN fields
        /\ \A k \in DOMAIN fields : fields'[k].elements = fields[k].elements
                                    /\ fields'[k].complex = fields[k].complex
    BY <1>1, <1>10 DEF MarkComplex, FieldRecords
  <2>2. FieldSizes' = FieldSizes
    BY <2>1 DEF FieldSizes, FieldBytes, Bytes
  <2> QED BY <1>4, <1>10, <2>2 DEF MarkComplex
<1>11. ASSUME PromoteField
       PROVE  CountInv'
  <2> DEFINE r == fields[next]
  <2>1. next \in DOMAIN fields /\ r \in FieldRecords
    BY <1>1, <1>11 DEF PromoteField
  <2>2. PICK b \in Nat : b = Bytes(r.elements, TRUE)
    BY <2>1, BytesType DEF FieldRecords
  <2>3. PICK a \in Nat : a = FieldBytes(r) /\ a <= bytesFields
    BY <1>8, <2>1
  <2>4. bytesFields' = (bytesFields - a) + b /\ UNCHANGED <<bytesScratch, held, result>>
    BY <1>11, <2>2, <2>3 DEF PromoteField, PromotedBytes
  <2>5. /\ DOMAIN fields' = DOMAIN fields
        /\ fields'[next].elements = r.elements /\ fields'[next].complex = TRUE
        /\ \A k \in DOMAIN fields \ {next} : fields'[k] = fields[k]
    BY <1>1, <1>11, <2>1 DEF PromoteField, FieldRecords
  <2>6. PICK g : g = FieldSizes'
    OBVIOUS
  <2>7. g = [k \in DOMAIN fields |-> FieldBytes(fields'[k])]
    BY <2>5, <2>6 DEF FieldSizes, FieldBytes, Bytes
  <2>8. g[next] = b
    BY <2>1, <2>2, <2>5, <2>7 DEF FieldBytes
  <2>9. \A k \in DOMAIN fields \ {next} : g[k] = FieldSizes[k]
    BY <2>5, <2>7 DEF FieldSizes
  <2>10. g \in [DOMAIN fields -> Nat] /\ DOMAIN fields = DOMAIN fields \cup {next}
    BY <1>2, <2>1, <2>7, <2>8, <2>9
  <2>11. a = FieldSizes[next]
    BY <2>1, <2>3 DEF FieldSizes
  <2>12. /\ IsFiniteSet(Storage(g))
         /\ Cardinality(Storage(g)) = (Cardinality(Storage(FieldSizes)) - a) + g[next]
    BY <1>2, <1>3, <2>1, <2>9, <2>10, <2>11, StorageChange
  <2>13. bytesFields' = Cardinality(Storage(g))
    BY <1>3, <2>4, <2>8, <2>12
  <2> QED BY <1>3, <1>6, <2>4, <2>6, <2>12, <2>13
<1>12. ASSUME RefusePromotion
       PROVE  CountInv'
  <2>1. next \in DOMAIN fields /\ result' = PromotionVerdict(fields[next])
    BY <1>12 DEF RefusePromotion
  <2>2. ~(bytesFields < FieldBytes(fields[next]))
    BY <1>1, <1>8, <2>1
  <2>3. result' # "INVALID_STATE"
    BY <2>1, <2>2 DEF PromotionVerdict
  <2> QED BY <1>7, <1>12, <2>3 DEF RefusePromotion
<1>13. ASSUME NEW x \in Splits, NEW n \in ScratchSizes, SplitReserve(x, n)
       PROVE  CountInv'
  <2>1. x \in Holders /\ n \in Nat /\ held[x] = 0
    BY <1>13, MemoryAssumption DEF Holders, SplitReserve
  <2> DEFINE g == [held EXCEPT ![x] = n]
  <2>2. g \in [Holders -> Nat] /\ g[x] = n /\ \A y \in Holders \ {x} : g[y] = held[y]
    BY <1>1, <2>1
  <2> HIDE DEF g
  <2>3. IsFiniteSet(Storage(g)) /\ Cardinality(Storage(g)) = (bytesScratch - held[x]) + n
    BY <1>1, <1>3, <2>1, <2>2, HolderChange
  <2>4. bytesScratch' = Cardinality(Storage(g))
    BY <1>1, <1>13, <2>1, <2>3 DEF SplitReserve
  <2> QED BY <1>5, <1>13, <2>3, <2>4 DEF SplitReserve, g
<1>14. ASSUME NEW x \in Splits, SplitRelease(x)
       PROVE  CountInv'
  <2>1. x \in Holders
    BY DEF Holders
  <2> DEFINE g == [held EXCEPT ![x] = 0]
  <2>2. g \in [Holders -> Nat] /\ g[x] = 0 /\ \A y \in Holders \ {x} : g[y] = held[y]
    BY <1>1, <2>1
  <2> HIDE DEF g
  <2>3. /\ IsFiniteSet(Storage(g)) /\ held[x] <= bytesScratch
        /\ Cardinality(Storage(g)) = (bytesScratch - held[x]) + 0
    BY <1>1, <1>3, <2>1, <2>2, HolderChange
  <2>4. PICK a \in Nat : a = held[x]
    BY <1>1, <2>1
  <2>5. Released(bytesScratch, a) = (bytesScratch - a) + 0
    BY <1>1, <2>3, <2>4 DEF Released
  <2>6. bytesScratch' = Cardinality(Storage(g))
    BY <1>14, <2>3, <2>4, <2>5 DEF SplitRelease
  <2> QED BY <1>5, <1>14, <2>3, <2>6 DEF SplitRelease, g
<1>15. ASSUME Destroy
       PROVE  CountInv'
  <2>1. PICK f, h : f = FieldSizes' /\ h = held'
    OBVIOUS
  <2>2. DOMAIN fields' = {}
    BY <1>15 DEF Destroy
  <2>3. f \in [{} -> Nat] /\ h \in [Holders -> Nat] /\ \A x \in Holders : h[x] = 0
    BY <1>15, <2>1, <2>2 DEF Destroy, FieldSizes
  <2>4. IsFiniteSet(Storage(f)) /\ Cardinality(Storage(f)) = 0
    BY <2>3, StorageEmpty
  <2>5. IsFiniteSet(Storage(h)) /\ Cardinality(Storage(h)) = 0
    BY <2>3, StorageEmpty
  <2> QED BY <1>15, <2>1, <2>4, <2>5 DEF Destroy, CountInv
<1>16. ASSUME NEW length \in LensLengths, LensResize(length)
       PROVE  CountInv'
  <2>1. PICK p \in Holders, q \in Holders :
          p = "lens_state" /\ q = "lens_workspace" /\ length \in Nat
    BY MemoryAssumption DEF Holders, LensBuffers
  <2>2. PICK b \in Nat, d \in Nat : b = StateBytes * length /\ d = WorkBytes * length
    BY <2>1, MemoryAssumption
  <2>3. PICK a \in Nat, c \in Nat : a = held[p] /\ c = held[q]
    BY <1>1, <2>1
  <2> DEFINE g == [held EXCEPT ![p] = b]
             h == [g EXCEPT ![q] = d]
             s == Resized(bytesScratch, a, b)
  <2>4. /\ g \in [Holders -> Nat] /\ g[p] = b /\ g[q] = c
        /\ \A y \in Holders \ {p} : g[y] = held[y]
    BY <1>1, <2>1, <2>3
  <2> HIDE DEF g
  <2>5. /\ h \in [Holders -> Nat] /\ h[q] = d
        /\ \A y \in Holders \ {q} : h[y] = g[y]
    BY <2>1, <2>4
  <2> HIDE DEF h
  <2>6. /\ IsFiniteSet(Storage(g)) /\ held[p] <= Cardinality(Storage(held))
        /\ Cardinality(Storage(g)) = (Cardinality(Storage(held)) - held[p]) + b
    BY <1>1, <1>3, <2>1, <2>4, HolderChange
  <2>7. s = Cardinality(Storage(g))
    BY <1>1, <1>3, <2>3, <2>6, ResizedExactly
  <2> HIDE DEF s
  <2>8. /\ IsFiniteSet(Storage(h)) /\ Cardinality(Storage(g)) \in Nat
        /\ g[q] <= Cardinality(Storage(g))
        /\ Cardinality(Storage(h)) = (Cardinality(Storage(g)) - g[q]) + d
    BY <2>1, <2>4, <2>5, <2>6, HolderChange
  <2>9. Resized(s, c, d) = Cardinality(Storage(h))
    BY <2>4, <2>7, <2>8, ResizedExactly
  <2>10. UNCHANGED <<fields, bytesFields, result>>
    BY <1>16 DEF LensResize
  <2>11. \/ held' = h /\ bytesScratch' = Resized(s, c, d)
         \/ held' = g /\ bytesScratch' = s
    BY <1>16, <2>1, <2>2, <2>3 DEF LensResize, s, g, h
  <2> QED BY <1>5, <2>6, <2>7, <2>8, <2>9, <2>10, <2>11
<1> QED
  BY <1>3, <1>7, <1>9, <1>10, <1>11, <1>12, <1>13, <1>14, <1>15, <1>16
  DEF Next, Prepare, vars, SetMemoryLimits, PrepareBegin, SkipField, PromotionFails, PrepareEnd

\* The counters are exact at all times: bytes_fields_in_use and bytes_scratch_in_use
\* count the bytes of the fields and of the reservations, however additions,
\* promotions, reservations and releases follow each other, so no promotion finds its
\* field larger than the counter (sim_context_prepare_complex_fields).
THEOREM CountersAreExact == Spec => []BytesCounted
<1>1. Init => CountInv
  <2> SUFFICES ASSUME Init PROVE CountInv
    OBVIOUS
  <2>1. FieldSizes \in [{} -> Nat] /\ held \in [Holders -> Nat] /\ \A x \in Holders : held[x] = 0
    BY DEF Init, FieldSizes
  <2>2. /\ IsFiniteSet(Storage(FieldSizes)) /\ Cardinality(Storage(FieldSizes)) = 0
        /\ IsFiniteSet(Storage(held)) /\ Cardinality(Storage(held)) = 0
    BY <2>1, StorageEmpty
  <2> QED BY <2>2 DEF Init, CountInv
<1>2. CountInv => BytesCounted
  BY DEF CountInv, BytesCounted
<1> QED BY <1>1, <1>2, CountNext, MemoryInvariant, PTL DEF Spec
===============================================================================
