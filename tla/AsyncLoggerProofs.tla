--------------------------- MODULE AsyncLoggerProofs ---------------------------
(***************************************************************************)
(* Proofs about the logger, for any number of producers and any capacity.  *)
(***************************************************************************)
EXTENDS AsyncLogger, FiniteSetTheorems, TLAPS

\* The mask keeps an index inside the ring.
LEMMA IndexInRing ==
  ASSUME NEW s \in Nat
  PROVE  Index(s) \in 0 .. Capacity - 1
  BY LoggerAssumption DEF Index

LEMMA TypeOKStep ==
  ASSUME TypeOK, [Next]_vars
  PROVE  TypeOK'
<1> USE DEF TypeOK, ring, producer, consumer
<1>1. ASSUME NEW p \in Producers, Claim(p)
      PROVE  TypeOK'
  BY <1>1 DEF Claim
<1>2. ASSUME NEW p \in Producers, LoadTail(p)
      PROVE  TypeOK'
  BY <1>2 DEF LoadTail
<1>3. ASSUME NEW p \in Producers, DropOldest(p)
      PROVE  TypeOK'
  BY <1>3 DEF DropOldest
<1>4. ASSUME NEW p \in Producers, WriteHeader(p)
      PROVE  TypeOK'
  <2>1. Index(slot[p]) \in 0 .. Capacity - 1 /\ slot[p] \in Nat
    BY IndexInRing
  <2>2. records' \in [0 .. Capacity - 1 -> Records]
    BY <1>4, <2>1 DEF WriteHeader, Records, Slots
  <2>3. QED
    BY <1>4, <2>2 DEF WriteHeader
<1>5. ASSUME NEW p \in Producers, WriteMessage(p)
      PROVE  TypeOK'
  <2>1. Index(slot[p]) \in 0 .. Capacity - 1 /\ slot[p] \in Nat
    BY IndexInRing
  <2>2. records' \in [0 .. Capacity - 1 -> Records]
    BY <1>5, <2>1 DEF WriteMessage, Records, Slots
  <2>3. QED
    BY <1>5, <2>2 DEF WriteMessage
<1>6. CASE PopLoadTail
  BY <1>6 DEF PopLoadTail
<1>7. CASE PopLoadHead
  BY <1>7 DEF PopLoadHead
<1>8. CASE PopAdvance
  BY <1>8 DEF PopAdvance
<1>9. CASE CopyHeader
  <2>1. Index(ctail) \in 0 .. Capacity - 1
    BY IndexInRing
  <2>2. out_record' \in Records
    BY <1>9, <2>1 DEF CopyHeader, Records
  <2>3. QED
    BY <1>9, <2>2 DEF CopyHeader
<1>10. CASE CopyMessage
  <2>1. Index(ctail) \in 0 .. Capacity - 1
    BY IndexInRing
  <2>2. out_record' \in Records
    BY <1>10, <2>1 DEF CopyMessage, Records
  <2>3. QED
    BY <1>10, <2>2 DEF CopyMessage
<1>11. CASE ClearLoad
  BY <1>11 DEF ClearLoad
<1>12. CASE ClearStore
  BY <1>12 DEF ClearStore
<1>13. CASE UNCHANGED vars
  BY <1>13 DEF vars
<1>14. QED
  BY <1>1, <1>2, <1>3, <1>4, <1>5, <1>6, <1>7, <1>8, <1>9, <1>10, <1>11, <1>12, <1>13
  DEF Next, LogStep, PopStep

\* Indices, records and program counters keep their types: every record access
\* of log and pop is inside the ring.
THEOREM TypeCorrect == Spec => []TypeOK
<1>1. Init => TypeOK
  BY LoggerAssumption DEF Init, TypeOK, Records, Slots, Blank, BlankRecord
<1>2. QED
  BY <1>1, TypeOKStep, PTL DEF Spec

-------------------------------------------------------------------------------
(* How far tail can run ahead.                                             *)

\* pop exchanges tail only after it has seen a claimed slot there, clear only
\* stores a head it has loaded, and both lie beyond the last slot taken.
ConsumerInv ==
  /\ popped < tail /\ popped < head
  /\ cpc = "cas" => ctail < head
  /\ cpc = "clear" => popped < chead /\ chead <= head

\* The invariant that the two theorems below rest on.
LoggerInv == TypeOK /\ ConsumerInv /\ TailOvershootBounded

LEMMA ConsumerInvStep ==
  ASSUME TypeOK, ConsumerInv, [Next]_vars
  PROVE  ConsumerInv'
<1> USE DEF TypeOK, ConsumerInv, ring, producer, consumer
<1>1. ASSUME NEW p \in Producers, Claim(p)
      PROVE  ConsumerInv'
  BY <1>1 DEF Claim
<1>2. ASSUME NEW p \in Producers, DropOldest(p)
      PROVE  ConsumerInv'
  BY <1>2 DEF DropOldest
<1>3. ASSUME NEW p \in Producers, LoadTail(p) \/ WriteHeader(p) \/ WriteMessage(p)
      PROVE  ConsumerInv'
  BY <1>3 DEF LoadTail, WriteHeader, WriteMessage
<1>4. CASE PopLoadTail
  BY <1>4 DEF PopLoadTail
<1>5. CASE PopLoadHead
  BY <1>5 DEF PopLoadHead
<1>6. CASE PopAdvance
  BY <1>6 DEF PopAdvance
<1>7. CASE CopyHeader \/ CopyMessage
  BY <1>7 DEF CopyHeader, CopyMessage
<1>8. CASE ClearLoad
  BY <1>8 DEF ClearLoad
<1>9. CASE ClearStore
  BY <1>9 DEF ClearStore
<1>10. CASE UNCHANGED vars
  BY <1>10 DEF vars
<1>11. QED
  BY <1>1, <1>2, <1>3, <1>4, <1>5, <1>6, <1>7, <1>8, <1>9, <1>10
  DEF Next, LogStep, PopStep

LEMMA InFlightFinite ==
  ASSUME TypeOK
  PROVE  /\ IsFiniteSet(InFlight) /\ Cardinality(InFlight) \in Nat
         /\ Cardinality(Producers) \in Nat
         /\ Cardinality(InFlight) <= Cardinality(Producers)
<1>1. InFlight \subseteq Producers
  BY DEF InFlight
<1>2. QED
  BY <1>1, LoggerAssumption, FS_Subset, FS_CardinalityType

\* A call that has claimed a slot counts once, and stops counting when it has
\* taken its one chance to advance tail.
LEMMA OvershootStep ==
  ASSUME TypeOK, ConsumerInv, TailOvershootBounded, TypeOK', [Next]_vars
  PROVE  TailOvershootBounded'
<1> USE DEF TypeOK
<1>1. /\ IsFiniteSet(InFlight) /\ Cardinality(InFlight) \in Nat
      /\ Cardinality(Producers) \in Nat
      /\ Cardinality(InFlight) <= Cardinality(Producers)
  BY InFlightFinite
<1>2. ASSUME NEW p \in Producers, Claim(p)
      PROVE  TailOvershootBounded'
  <2>1. p \notin InFlight /\ InFlight' = InFlight \cup {p}
    BY <1>2 DEF Claim, InFlight
  <2>2. Cardinality(InFlight') = Cardinality(InFlight) + 1
    BY <1>1, <2>1, FS_AddElement
  <2>3. QED
    BY <1>1, <1>2, <2>2 DEF Claim, TailOvershootBounded
<1>3. ASSUME NEW p \in Producers, LoadTail(p)
      PROVE  TailOvershootBounded'
  <2>1. InFlight' \subseteq InFlight
    BY <1>3 DEF LoadTail, InFlight
  <2>2. Cardinality(InFlight') <= Cardinality(InFlight) /\ Cardinality(InFlight') \in Nat
    BY <1>1, <2>1, FS_Subset, FS_CardinalityType
  <2>3. QED
    BY <1>1, <1>3, <2>2 DEF LoadTail, ring, TailOvershootBounded
<1>4. ASSUME NEW p \in Producers, DropOldest(p)
      PROVE  TailOvershootBounded'
  <2>1. p \in InFlight /\ InFlight' = InFlight \ {p}
    BY <1>4 DEF DropOldest, InFlight
  <2>2. Cardinality(InFlight') = Cardinality(InFlight) - 1
    BY <1>1, <2>1, FS_RemoveElement
  <2>3. QED
    BY <1>1, <1>4, <2>2 DEF DropOldest, TailOvershootBounded
<1>5. ASSUME NEW p \in Producers, WriteHeader(p) \/ WriteMessage(p)
      PROVE  TailOvershootBounded'
  <2>1. InFlight' = InFlight
    BY <1>5 DEF WriteHeader, WriteMessage, InFlight
  <2>2. QED
    BY <1>5, <2>1 DEF WriteHeader, WriteMessage, TailOvershootBounded
<1>6. CASE PopAdvance
  <2>1. InFlight' = InFlight /\ head' = head
    BY <1>6 DEF PopAdvance, producer, InFlight
  <2>2. tail' <= head \/ tail' = tail
    BY <1>6 DEF PopAdvance, ConsumerInv
  <2>3. QED
    BY <1>1, <2>1, <2>2 DEF TailOvershootBounded
<1>7. CASE ClearStore
  <2>1. InFlight' = InFlight /\ head' = head /\ tail' <= head
    BY <1>7 DEF ClearStore, ConsumerInv, producer, InFlight
  <2>2. QED
    BY <1>1, <2>1 DEF TailOvershootBounded
<1>8. CASE \/ PopLoadTail \/ PopLoadHead \/ CopyHeader \/ CopyMessage
           \/ ClearLoad \/ UNCHANGED vars
  <2>1. UNCHANGED <<head, tail, pc>>
    BY <1>8 DEF PopLoadTail, PopLoadHead, CopyHeader, CopyMessage, ClearLoad, vars,
                ring, producer
  <2>2. QED
    BY <2>1 DEF InFlight, TailOvershootBounded
<1>9. QED
  BY <1>2, <1>3, <1>4, <1>5, <1>6, <1>7, <1>8 DEF Next, LogStep, PopStep

THEOREM LoggerInvariant == Spec => []LoggerInv
<1>1. Init => TypeOK
  BY LoggerAssumption DEF Init, TypeOK, Records, Slots, Blank, BlankRecord
<1>2. Init => ConsumerInv
  BY DEF Init, ConsumerInv
<1>3. Init => TailOvershootBounded
  <2> SUFFICES ASSUME Init PROVE TailOvershootBounded
    OBVIOUS
  <2>1. InFlight = {}
    BY DEF Init, InFlight
  <2>2. Cardinality(Producers) \in Nat
    BY LoggerAssumption, FS_CardinalityType
  <2>3. QED
    BY <2>1, <2>2, FS_EmptySet DEF Init, TailOvershootBounded
<1>4. LoggerInv /\ [Next]_vars => LoggerInv'
  BY TypeOKStep, ConsumerInvStep, OvershootStep DEF LoggerInv
<1>5. QED
  BY <1>1, <1>2, <1>3, <1>4, PTL DEF Spec, LoggerInv

\* However the unsigned distance wraps, tail never passes head by more than the
\* number of producers.
THEOREM OvershootBounded == Spec => []TailOvershootBounded
<1>1. LoggerInv => TailOvershootBounded
  BY DEF LoggerInv
<1>2. QED
  BY <1>1, LoggerInvariant, PTL

\* The consumer takes claimed slots only, each at most once, in increasing order.
THEOREM PopsOnlyAdvance == Spec => PopsAdvance
<1>1. ASSUME LoggerInv, [Next]_vars, popped' # popped
      PROVE  popped' > popped /\ popped' < head
  <2>1. CASE PopAdvance
    BY <1>1, <2>1 DEF PopAdvance, LoggerInv, ConsumerInv, TypeOK
  <2>2. CASE ~PopAdvance
    BY <1>1, <2>2 DEF Next, LogStep, PopStep, Claim, LoadTail, DropOldest, WriteHeader,
         WriteMessage, PopLoadTail, PopLoadHead, CopyHeader, CopyMessage, ClearLoad,
         ClearStore, vars, consumer
  <2>3. QED
    BY <2>1, <2>2
<1>2. LoggerInv /\ [Next]_vars =>
        [popped' # popped => popped' > popped /\ popped' < head]_vars
  BY <1>1
<1>3. QED
  BY <1>2, LoggerInvariant, PTL DEF Spec, PopsAdvance
-------------------------------------------------------------------------------
(* One producer and no clear.                                              *)

\* What the ring holds for a slot that has been logged.
Logged(s) == records[Index(s)] = [hdr |-> s, msg |-> s]

\* The only log call claims the last slot and makes room for it before it writes; the
\* record of every other slot that is pending stays as it was logged.
RingInv(p) ==
  /\ cpc # "clear"
  /\ pc[p] # "idle" => slot[p] = head - 1
  /\ pc[p] = "load" => head - tail <= Capacity + 1
  /\ pc[p] = "cas" => seen_tail[p] <= tail /\ head - seen_tail[p] <= Capacity + 1
  /\ pc[p] \in {"idle", "header", "message"} => head - tail <= Capacity
  /\ pc[p] = "message" => records[Index(slot[p])].hdr = slot[p]
  /\ \A s \in Nat : tail <= s /\ s < head /\ (pc[p] = "idle" \/ s # slot[p]) => Logged(s)

\* A slot between tail and head that no log call is filling holds its record, whole.
PendingIsWhole ==
  \A s \in Nat :
    /\ clears = 0
    /\ tail <= s /\ s < head
    /\ \A p \in Producers : pc[p] = "idle" \/ s # slot[p]
    => Logged(s)

LEMMA Remainder ==
  ASSUME NEW a \in Nat, NEW w \in Nat \ {0}, a < w
  PROVE  a % w = a
OBVIOUS

\* Slots less than a capacity apart have entries of their own.
LEMMA IndexApart ==
  ASSUME NEW s \in Nat, NEW t \in Nat, s < t, t - s < Capacity
  PROVE  Index(s) # Index(t)
<1>1. Capacity \in Nat \ {0}
  BY LoggerAssumption
<1>2. PICK c \in Nat \ {0} : c = Capacity
  BY <1>1
<1> SUFFICES s % c # t % c
  BY <1>2 DEF Index
<1>3. s = c * (s \div c) + (s % c) /\ t = c * (t \div c) + (t % c)
  BY <1>2
<1>4. ASSUME s % c = t % c
      PROVE  FALSE
  <2>1. PICK x \in Int, y \in Int : x = s \div c /\ y = t \div c
    BY <1>2
  <2>2. t - s = c * y - c * x
    BY <1>3, <1>4, <2>1
  <2>3. c * y - c * x = c * (y - x)
    BY <2>1
  <2>4. PICK z \in Int : z = y - x
    OBVIOUS
  <2>5. c * z > 0 /\ c * z < c
    BY <1>2, <2>2, <2>3, <2>4
  <2> QED BY <2>5
<1> QED BY <1>4
RingOK == clears = 0 => \A p \in Producers : RingInv(p)

LEMMA RingStep ==
  ASSUME NEW q, Producers = {q}, Capacity < Word, TypeOK, RingOK, [Next]_vars
  PROVE  RingOK'
<1>1. /\ Capacity \in Nat \ {0} /\ Word \in Nat \ {0} /\ q \in Producers
      /\ head \in Nat /\ tail \in Nat /\ clears \in Nat
      /\ pc[q] \in {"idle", "load", "cas", "header", "message"}
      /\ slot[q] \in Nat /\ seen_tail[q] \in Nat
  BY LoggerAssumption DEF TypeOK
<1>2. CASE clears' # 0
  BY <1>2 DEF RingOK
<1>3. CASE clears' = 0
  <2>1. clears = 0 /\ RingInv(q)
    <3>1. clears' = clears \/ clears' = clears + 1
      BY DEF Next, LogStep, PopStep, Claim, LoadTail, DropOldest, WriteHeader, WriteMessage,
             PopLoadTail, PopLoadHead, PopAdvance, CopyHeader, CopyMessage, ClearLoad,
             ClearStore, vars, consumer
    <3> QED BY <1>1, <1>3, <3>1 DEF RingOK
  <2> SUFFICES RingInv(q)'
    BY DEF RingOK
  <2>2. CASE Claim(q)
    <3>1. /\ pc' = [pc EXCEPT ![q] = "load"] /\ slot' = [slot EXCEPT ![q] = head]
          /\ head' = head + 1 /\ tail' = tail /\ records' = records /\ cpc' = cpc
          /\ pc[q] = "idle"
      BY <2>2 DEF Claim, consumer
    <3>2. pc'[q] = "load" /\ slot'[q] = head
      BY <1>1, <3>1 DEF TypeOK
    <3>3. \A s \in Nat : tail' <= s /\ s < head' /\ s # slot'[q] => Logged(s)'
      BY <1>1, <2>1, <3>1, <3>2 DEF RingInv, Logged
    <3> QED BY <1>1, <2>1, <3>1, <3>2, <3>3 DEF RingInv
  <2>3. CASE LoadTail(q)
    <3>1. /\ seen_tail' = [seen_tail EXCEPT ![q] = tail]
          /\ pc' = [pc EXCEPT ![q] = IF Full(slot[q], tail) THEN "cas" ELSE "header"]
          /\ head' = head /\ tail' = tail /\ records' = records /\ cpc' = cpc /\ slot' = slot
          /\ pc[q] = "load"
      BY <2>3 DEF LoadTail, consumer, ring
    <3>2. /\ pc'[q] = IF Full(slot[q], tail) THEN "cas" ELSE "header"
          /\ seen_tail'[q] = tail
      BY <1>1, <3>1 DEF TypeOK
    <3>3. slot[q] = head - 1 /\ head - tail <= Capacity + 1
      BY <2>1, <3>1 DEF RingInv
    <3>4. ~Full(slot[q], tail) => head - tail <= Capacity
      <4>1. CASE slot[q] < tail
        BY <1>1, <3>3, <4>1
      <4>2. CASE slot[q] >= tail
        <5>1. PICK a \in Nat : a = slot[q] - tail
          BY <1>1, <4>2
        <5>2. a < Word
          BY <1>1, <3>3, <5>1
        <5>3. (slot[q] - tail) % Word = a
          BY <1>1, <5>1, <5>2, Remainder
        <5> QED BY <1>1, <3>3, <5>1, <5>3 DEF Full
      <4> QED BY <1>1, <4>1, <4>2
    <3>5. \A s \in Nat : tail' <= s /\ s < head' /\ s # slot'[q] => Logged(s)'
      BY <2>1, <3>1 DEF RingInv, Logged
    <3> QED BY <1>1, <2>1, <3>1, <3>2, <3>3, <3>4, <3>5 DEF RingInv
  <2>4. CASE DropOldest(q)
    <3>1. /\ tail' = (IF tail = seen_tail[q] THEN tail + 1 ELSE tail)
          /\ pc' = [pc EXCEPT ![q] = "header"]
          /\ head' = head /\ records' = records /\ cpc' = cpc /\ slot' = slot
          /\ pc[q] = "cas"
      BY <2>4 DEF DropOldest, consumer
    <3>2. pc'[q] = "header" /\ tail' \in Nat /\ tail' >= tail
      BY <1>1, <3>1 DEF TypeOK
    <3>3. /\ slot[q] = head - 1
          /\ seen_tail[q] <= tail /\ head - seen_tail[q] <= Capacity + 1
      BY <2>1, <3>1 DEF RingInv
    <3>4. head - tail' <= Capacity
      BY <1>1, <3>1, <3>3
    <3>5. \A s \in Nat : tail' <= s /\ s < head' /\ s # slot'[q] => Logged(s)'
      BY <1>1, <2>1, <3>1, <3>2 DEF RingInv, Logged
    <3> QED BY <1>1, <2>1, <3>1, <3>2, <3>3, <3>4, <3>5 DEF RingInv
  <2>5. CASE WriteHeader(q) \/ WriteMessage(q)
    <3>1. PICK k \in 0 .. Capacity - 1 : k = Index(slot[q])
      BY <1>1, IndexInRing
    <3>2. /\ head' = head /\ tail' = tail /\ cpc' = cpc /\ slot' = slot
          /\ pc[q] \in {"header", "message"}
      BY <2>5 DEF WriteHeader, WriteMessage, consumer
    <3>3. slot[q] = head - 1 /\ head - tail <= Capacity
      BY <2>1, <3>2 DEF RingInv
    <3>4. \A j \in 0 .. Capacity - 1 : j # k => records'[j] = records[j]
      BY <2>5, <3>1 DEF WriteHeader, WriteMessage, TypeOK
    <3>5. \A s \in Nat : tail <= s /\ s < head /\ s # slot[q] =>
                           Index(s) # k /\ Index(s) \in 0 .. Capacity - 1
      <4> SUFFICES ASSUME NEW s \in Nat, tail <= s, s < head, s # slot[q]
                   PROVE  Index(s) # k /\ Index(s) \in 0 .. Capacity - 1
        OBVIOUS
      <4>1. s < slot[q] /\ slot[q] - s < Capacity
        BY <1>1, <3>3
      <4> QED BY <1>1, <3>1, <4>1, IndexApart, IndexInRing
    <3>6. \A s \in Nat : tail <= s /\ s < head /\ s # slot[q] => Logged(s)
      BY <2>1, <3>2 DEF RingInv
    <3>7. \A s \in Nat : tail' <= s /\ s < head' /\ s # slot'[q] => Logged(s)'
      BY <3>2, <3>4, <3>5, <3>6 DEF Logged, Index
    <3>8. CASE WriteHeader(q)
      <4>1. pc'[q] = "message"
        BY <1>1, <3>8 DEF WriteHeader, TypeOK
      <4>2. records' = [records EXCEPT ![k].hdr = slot[q]]
        BY <3>1, <3>8 DEF WriteHeader
      <4>3. records'[k].hdr = slot[q]
        BY <3>1, <4>2 DEF TypeOK, Records
      <4>4. Index(slot[q])' = k
        BY <3>1, <3>2 DEF Index
      <4> QED BY <2>1, <3>2, <3>3, <3>7, <4>1, <4>3, <4>4 DEF RingInv
    <3>9. CASE WriteMessage(q)
      <4>1. pc'[q] = "idle" /\ pc[q] = "message"
        BY <1>1, <3>9 DEF WriteMessage, TypeOK
      <4>2. records' = [records EXCEPT ![k].msg = slot[q]]
        BY <3>1, <3>9 DEF WriteMessage
      <4>3. records[k].hdr = slot[q] /\ records[k] \in Records
        BY <2>1, <3>1, <4>1 DEF RingInv, TypeOK
      <4>4. records'[k] = [hdr |-> slot[q], msg |-> slot[q]]
        BY <3>1, <4>2, <4>3 DEF TypeOK, Records
      <4>5. \A s \in Nat : s = slot[q] => Logged(s)'
        BY <3>1, <4>4 DEF Logged, Index
      <4>6. \A s \in Nat : tail' <= s /\ s < head' => Logged(s)'
        BY <3>2, <3>7, <4>5
      <4> QED BY <2>1, <3>2, <3>3, <4>1, <4>6 DEF RingInv
    <3> QED BY <2>5, <3>8, <3>9
  <2>6. CASE PopAdvance
    <3>1. /\ head' = head /\ records' = records /\ slot' = slot /\ pc' = pc
          /\ seen_tail' = seen_tail /\ cpc' # "clear"
          /\ tail' = tail \/ tail' = tail + 1
      BY <2>6 DEF PopAdvance, producer
    <3>2. tail' \in Nat /\ tail' >= tail
      BY <1>1, <3>1
    <3>3. \A s \in Nat : tail' <= s /\ s < head' /\ (pc'[q] = "idle" \/ s # slot'[q]) =>
                           Logged(s)'
      BY <1>1, <2>1, <3>1, <3>2 DEF RingInv, Logged
    <3>4. Index(slot[q])' = Index(slot[q])
      BY <3>1 DEF Index
    <3>5. /\ pc'[q] = "load" => head' - tail' <= Capacity + 1
          /\ pc'[q] = "cas" => seen_tail'[q] <= tail' /\ head' - seen_tail'[q] <= Capacity + 1
          /\ pc'[q] \in {"idle", "header", "message"} => head' - tail' <= Capacity
      <4>1. PICK t \in Nat, u \in Nat, h \in Nat, x \in Nat, c \in Nat :
              t = tail' /\ u = tail /\ h = head /\ x = seen_tail[q] /\ c = Capacity
        BY <1>1, <3>2
      <4>2. t >= u
        BY <3>2, <4>1
      <4>3. h - u <= c + 1 => h - t <= c + 1
        BY <4>2
      <4>4. h - u <= c => h - t <= c
        BY <4>2
      <4>5. x <= u => x <= t
        BY <4>2
      <4>6. /\ pc[q] = "load" => head - tail <= Capacity + 1
            /\ pc[q] = "cas" => seen_tail[q] <= tail /\ head - seen_tail[q] <= Capacity + 1
            /\ pc[q] \in {"idle", "header", "message"} => head - tail <= Capacity
        BY <2>1 DEF RingInv
      <4> QED BY <3>1, <4>1, <4>3, <4>4, <4>5, <4>6
    <3>6. /\ pc'[q] # "idle" => slot'[q] = head' - 1
          /\ pc'[q] = "message" => records'[Index(slot[q])'].hdr = slot'[q]
      BY <2>1, <3>1, <3>4 DEF RingInv
    <3> QED BY <3>1, <3>3, <3>5, <3>6 DEF RingInv
  <2>7. CASE PopLoadTail \/ PopLoadHead \/ CopyHeader \/ CopyMessage \/ UNCHANGED vars
    <3>1. /\ head' = head /\ records' = records /\ slot' = slot /\ pc' = pc
          /\ seen_tail' = seen_tail /\ tail' = tail
      BY <2>7 DEF PopLoadTail, PopLoadHead, CopyHeader, CopyMessage, vars, ring, producer
    <3>2. cpc' # "clear"
      BY <2>1, <2>7 DEF PopLoadTail, PopLoadHead, CopyHeader, CopyMessage, vars, consumer, RingInv
    <3> QED BY <2>1, <3>1, <3>2 DEF RingInv, Logged, Index
  <2>8. CASE ClearLoad \/ ClearStore
    BY <1>1, <1>3, <2>1, <2>8 DEF ClearLoad, ClearStore, RingInv
  <2>9. \A p \in Producers : p = q
    OBVIOUS
  <2> QED BY <2>2, <2>3, <2>4, <2>5, <2>6, <2>7, <2>8, <2>9 DEF Next, LogStep, PopStep
<1> QED BY <1>2, <1>3

\* With one producer, until clear is called, the ring loses nothing it has not dropped:
\* the oldest record is dropped before the new one is written over it, so every pending
\* slot that is not being filled holds the record that was logged in it, whole, however
\* pop runs between the accesses of log.  What makes it false for two is that the outcome
\* of the exchange at async_logger.c:135 is ignored, and for clear that it stores an old head.
THEOREM OneProducerKeepsPending ==
  ASSUME NEW q, Producers = {q}, Capacity < Word
  PROVE  Spec => []PendingIsWhole
<1>1. Init => RingOK
  <2> SUFFICES ASSUME Init
               PROVE  RingOK
    OBVIOUS
  <2>1. Capacity \in Nat
    BY LoggerAssumption
  <2> QED BY <2>1 DEF Init, RingOK, RingInv
<1>2. TypeOK /\ RingOK /\ [Next]_vars => RingOK'
  BY RingStep
<1>3. RingOK => PendingIsWhole
  BY DEF RingOK, RingInv, PendingIsWhole
<1> QED BY <1>1, <1>2, <1>3, TypeCorrect, PTL DEF Spec
===============================================================================
