------------------------------ MODULE AsyncLogger ------------------------------
(***************************************************************************)
(* The lock-free ring buffer of core/src/async_logger.c: any number of     *)
(* producers in sim_async_logger_log, one consumer in sim_async_logger_pop *)
(* and sim_async_logger_clear.  One step per atomic access to head or      *)
(* tail; filling or copying a record is two steps, its header fields       *)
(* (timestamp, thread, level) and its message, as neither is atomic.       *)
(*                                                                         *)
(* A message is named by the slot its log call claimed, so a record is a   *)
(* pair of slot numbers, and the pair of slot s is [hdr |-> s, msg |-> s]. *)
(***************************************************************************)
EXTENDS Integers, FiniteSets

CONSTANTS Producers,     \* the logging threads
          Capacity,      \* ring size (a power of two, at least 64, in the code)
          Word,          \* size_t arithmetic is modulo Word (2^64 in the code)
          MaxLogs,       \* bound on the number of log calls
          MaxClears      \* bound on the number of clear calls

ASSUME LoggerAssumption ==
  /\ IsFiniteSet(Producers)
  /\ Capacity \in Nat \ {0}
  /\ Word \in Nat \ {0}
  /\ MaxLogs \in Nat
  /\ MaxClears \in Nat

VARIABLES head, tail,    \* the atomic indices; slots are numbered from 0
          records,       \* the ring
          pc,            \* producer -> step of its log call
          slot,          \* producer -> the slot it claimed
          seen_tail,     \* producer -> the tail it loaded
          cpc,           \* step of the consumer's pop or clear call
          ctail,         \* tail as loaded by pop
          chead,         \* head as loaded by clear
          popped,        \* last slot the consumer took, -1 at first
          out_record,    \* the record handed out for it
          clears         \* number of clear calls

ring == <<head, tail, records>>
producer == <<pc, slot, seen_tail>>
consumer == <<cpc, ctail, chead, popped, out_record, clears>>
vars == <<ring, producer, consumer>>

Blank == -1                        \* what calloc leaves in a record
BlankRecord == [hdr |-> Blank, msg |-> Blank]
Index(s) == s % Capacity           \* s & (capacity - 1)

-------------------------------------------------------------------------------
Init == /\ head = 0
        /\ tail = 0
        /\ records = [x \in 0 .. Capacity - 1 |-> BlankRecord]
        /\ pc = [p \in Producers |-> "idle"]
        /\ slot = [p \in Producers |-> 0]
        /\ seen_tail = [p \in Producers |-> 0]
        /\ cpc = "idle"
        /\ ctail = 0
        /\ chead = 0
        /\ popped = -1
        /\ out_record = BlankRecord
        /\ clears = 0

(* sim_async_logger_log                                                    *)

Claim(p) == /\ pc[p] = "idle"
            /\ head < MaxLogs
            /\ pc' = [pc EXCEPT ![p] = "load"]
            /\ slot' = [slot EXCEPT ![p] = head]
            /\ head' = head + 1
            /\ UNCHANGED <<tail, records, seen_tail, consumer>>

\* (slot - tail) >= capacity on unsigned operands: a tail beyond the slot wraps
\* around to a huge distance.
Full(s, t) == (s - t) % Word >= Capacity

LoadTail(p) == /\ pc[p] = "load"
               /\ seen_tail' = [seen_tail EXCEPT ![p] = tail]
               /\ pc' = [pc EXCEPT ![p] = IF Full(slot[p], tail) THEN "cas" ELSE "header"]
               /\ UNCHANGED <<ring, slot, consumer>>

\* Mutant: tail is stored, not compared and exchanged.
DropOldestStore(p) == /\ pc[p] = "cas"
                      /\ tail' = seen_tail[p] + 1
                      /\ pc' = [pc EXCEPT ![p] = "header"]
                      /\ UNCHANGED <<head, records, slot, seen_tail, consumer>>

\* The compare-and-swap is tried once and its outcome ignored.
DropOldest(p) == /\ pc[p] = "cas"
                 /\ tail' = IF tail = seen_tail[p] THEN tail + 1 ELSE tail
                 /\ pc' = [pc EXCEPT ![p] = "header"]
                 /\ UNCHANGED <<head, records, slot, seen_tail, consumer>>

WriteHeader(p) == /\ pc[p] = "header"
                  /\ records' = [records EXCEPT ![Index(slot[p])].hdr = slot[p]]
                  /\ pc' = [pc EXCEPT ![p] = "message"]
                  /\ UNCHANGED <<head, tail, slot, seen_tail, consumer>>

WriteMessage(p) == /\ pc[p] = "message"
                   /\ records' = [records EXCEPT ![Index(slot[p])].msg = slot[p]]
                   /\ pc' = [pc EXCEPT ![p] = "idle"]
                   /\ UNCHANGED <<head, tail, slot, seen_tail, consumer>>

LogStep(p) == \/ LoadTail(p) \/ DropOldest(p)
              \/ WriteHeader(p) \/ WriteMessage(p)

(* sim_async_logger_pop                                                    *)

PopLoadTail == /\ cpc \in {"idle", "retry"}
               /\ ctail' = tail
               /\ cpc' = "head"
               /\ UNCHANGED <<ring, producer, chead, popped, out_record, clears>>

\* Mutant: an empty ring is taken for one with a pending record.
PopLoadHeadLoose == /\ cpc = "head"
                    /\ cpc' = IF ctail > head THEN "idle" ELSE "cas"
                    /\ UNCHANGED <<ring, producer, ctail, chead, popped, out_record, clears>>

\* tail >= head: nothing is pending and pop returns false.
PopLoadHead == /\ cpc = "head"
               /\ cpc' = IF ctail >= head THEN "idle" ELSE "cas"
               /\ UNCHANGED <<ring, producer, ctail, chead, popped, out_record, clears>>

\* Mutant: the loop takes its tail for current after a failed exchange.
PopNoReload == /\ cpc = "cas"
               /\ IF tail = ctail
                    THEN tail' = tail + 1 /\ popped' = ctail /\ cpc' = "copy_header"
                    ELSE tail' = tail /\ popped' = popped /\ cpc' = "cas"
               /\ UNCHANGED <<head, records, producer, ctail, chead, out_record, clears>>

PopAdvance == /\ cpc = "cas"
              /\ IF tail = ctail
                   THEN tail' = tail + 1 /\ popped' = ctail /\ cpc' = "copy_header"
                   ELSE tail' = tail /\ popped' = popped /\ cpc' = "retry"
              /\ UNCHANGED <<head, records, producer, ctail, chead, out_record, clears>>

CopyHeader == /\ cpc = "copy_header"
              /\ out_record' = [hdr |-> records[Index(ctail)].hdr, msg |-> out_record.msg]
              /\ cpc' = "copy_message"
              /\ UNCHANGED <<ring, producer, ctail, chead, popped, clears>>

CopyMessage == /\ cpc = "copy_message"
               /\ out_record' = [hdr |-> out_record.hdr, msg |-> records[Index(ctail)].msg]
               /\ cpc' = "idle"
               /\ UNCHANGED <<ring, producer, ctail, chead, popped, clears>>

(* sim_async_logger_clear                                                  *)

ClearLoad == /\ cpc = "idle"
             /\ clears < MaxClears
             /\ clears' = clears + 1
             /\ chead' = head
             /\ cpc' = "clear"
             /\ UNCHANGED <<ring, producer, ctail, popped, out_record>>

ClearStore == /\ cpc = "clear"
              /\ tail' = chead
              /\ cpc' = "idle"
              /\ UNCHANGED <<head, records, producer, ctail, chead, popped, out_record, clears>>

PopStep == PopLoadHead \/ PopAdvance \/ CopyHeader \/ CopyMessage

Next == \/ \E p \in Producers : Claim(p) \/ LogStep(p)
        \/ PopLoadTail \/ PopStep
        \/ ClearLoad \/ ClearStore

\* A thread that has entered log, pop or clear keeps running.
Running == /\ \A p \in Producers : WF_vars(LogStep(p))
           /\ WF_vars(PopStep \/ ClearStore \/ (cpc = "retry" /\ PopLoadTail))

Spec == Init /\ [][Next]_vars /\ Running

\* The consumer also polls for ever.
PollingSpec == Spec /\ WF_vars(PopLoadTail)

-------------------------------------------------------------------------------
Slots == Nat
Records == [hdr : Slots \cup {Blank}, msg : Slots \cup {Blank}]

\* Every index and record of the ring, and the program counters, hold values of
\* their kind; a record is addressed inside the ring.
TypeOK ==
  /\ head \in Nat
  /\ tail \in Nat
  /\ records \in [0 .. Capacity - 1 -> Records]
  /\ pc \in [Producers -> {"idle", "load", "cas", "header", "message"}]
  /\ slot \in [Producers -> Nat]
  /\ seen_tail \in [Producers -> Nat]
  /\ cpc \in {"idle", "head", "retry", "cas", "copy_header", "copy_message", "clear"}
  /\ ctail \in Nat
  /\ chead \in Nat
  /\ popped \in Nat \cup {-1}
  /\ out_record \in Records
  /\ clears \in Nat

\* The log calls that may still advance tail.
InFlight == { p \in Producers : pc[p] \in {"load", "cas"} }

\* A late producer can push tail past head (the unsigned distance wraps), but
\* all of them together by no more than one slot each: while k calls can still
\* do so, tail is at most head plus the number of producers less k.
TailOvershootBounded ==
  tail + Cardinality(InFlight) <= head + Cardinality(Producers)

\* The single consumer takes each slot at most once and in increasing order,
\* however producers and clear move tail between its calls, and it takes only
\* slots that some log call has claimed.
PopsAdvance ==
  [][popped' # popped => popped' > popped /\ popped' < head]_vars

\* The record handed out for a slot is the one logged in that slot, complete.
PoppedRecordIsWhole ==
  (cpc = "idle" /\ popped # -1) => out_record = [hdr |-> popped, msg |-> popped]

\* A consumer that keeps polling sees every message that has been logged, or the
\* ring has filled with newer ones since: pop returns false only when there is
\* nothing to return.
LoggedIsSeen ==
  \A s \in 0 .. MaxLogs - 1 :
    records[Index(s)] = [hdr |-> s, msg |-> s]
      ~> popped >= s \/ head - s > Capacity

\* Every pop and every clear returns, once producers leave tail alone.
ConsumerReturns == cpc # "idle" ~> cpc = "idle"
===============================================================================
