--------------------------- MODULE SpecialFaultProofs ---------------------------
(***************************************************************************)
(* Proofs about the faults of special functions, for any number of threads *)
(* of the host, of reports, fallbacks and calls.                           *)
(***************************************************************************)
EXTENDS SpecialFault, TLAPS

\* The parts of the report, and of the hook, agree.
Whole == diag.function = diag.last /\ (diag.any <=> diag.last # None)
Paired == hook.user = hook.userdata

\* What a call has left to write, from its entry to its unlock, by what it is about.
Reporting == { <<"function", "last", "count">>, <<"last", "count">>, <<"count">>, << >> }
Clearing == { <<"uncount", "last", "function">>, <<"last", "function">>, <<"function">>, << >> }
Setting == { <<"user", "userdata">>, <<"userdata">>, << >> }
Copying == { <<"copy">>, << >> }
Entries == { <<"function", "last", "count">>, <<"uncount", "last", "function">>,
             <<"user", "userdata">>, <<"copy">> }

\* A call that has the lock or waits for it.
WellBegun(c) ==
  /\ \/ c.todo \in Reporting /\ c.arg \in Reports /\ ~c.inside
     \/ c.todo \in Clearing /\ c.arg = None
     \/ c.todo \in Setting /\ c.arg \in Fallbacks \cup {None}
     \/ c.todo \in Copying /\ c.arg = None
  /\ c.pc = "lock" => c.todo \in Entries

\* What the holder of the lock has made of the report and of the hook so far.
Halfway == { <<"last", "count">>, <<"count">>, <<"last", "function">>, <<"function">> }
ReportAt(c) ==
  /\ c.todo = <<"last", "count">> => diag.function = c.arg /\ (diag.any <=> diag.last # None)
  /\ c.todo = <<"count">> => diag.function = c.arg /\ diag.last = c.arg
  /\ c.todo = <<"last", "function">> => ~diag.any /\ diag.function = diag.last
  /\ c.todo = <<"function">> => ~diag.any /\ diag.last = None
  /\ c.todo \notin Halfway => Whole
HookAt(c) == IF c.todo = <<"userdata">> THEN hook.user = c.arg ELSE Paired

\* What a dispatch that is past the lock knows of the hook.
FallbackAt(c) ==
  c.replaced \/ /\ c.pc = "user" => Paired
                /\ c.pc = "userdata" => Paired /\ c.fallback = hook.user /\ hook.user # None
                /\ c.pc = "fallback" \/ (c.inside /\ c.pc \in {"lock", "locked"})
                     => c.fallback # None /\ c.data = c.fallback

HolderIsLocked == \A t \in Threads : At(t, "locked") <=> lock = t
CallsWellBegun == \A t \in Threads : At(t, "lock") \/ At(t, "locked") => WellBegun(thread[t])
FallbacksKnown == \A t \in Threads : FallbackAt(thread[t])
HolderKnown == IF lock = None THEN Whole /\ Paired
               ELSE ReportAt(thread[lock]) /\ HookAt(thread[lock])

\* The inductive invariant: the report and the hook agree in their parts but for what
\* the holder of the lock has left to write, and a dispatch past the lock has read the
\* hook as it is unless it has been written since.
IInv == TypeOK /\ HolderIsLocked /\ CallsWellBegun /\ FallbacksKnown /\ HolderKnown
-------------------------------------------------------------------------------
Calls == [pc : Pcs, todo : Seq(Parts), arg : Reports \cup Fallbacks \cup {None},
          fallback : Fallbacks \cup {None}, data : Fallbacks \cup {None},
          replaced : BOOLEAN, inside : BOOLEAN]

LEMMA EntriesAreParts == Entries \subseteq Seq(Parts)
BY DEF Entries, Parts

LEMMA EntryStep ==
  ASSUME IInv, NEW t \in Threads, NEW todo \in Entries,
         NEW arg \in Reports \cup Fallbacks \cup {None},
         Enter(t, todo, arg),
         \/ todo = <<"function", "last", "count">> /\ arg \in Reports /\ At(t, "idle")
         \/ todo = <<"uncount", "last", "function">> /\ arg = None
         \/ todo = <<"user", "userdata">> /\ arg \in Fallbacks \cup {None}
         \/ todo = <<"copy">> /\ arg = None
  PROVE  IInv'
<1>1. /\ thread'[t] = [thread[t] EXCEPT !.pc = "lock", !.todo = todo, !.arg = arg,
                                        !.inside = At(t, "fallback")]
      /\ \A u \in Threads \ {t} : thread'[u] = thread[u]
      /\ thread' = [thread EXCEPT ![t] = thread'[t]]
  BY DEF Enter, IInv, TypeOK
<1>2. TypeOK'
  <2>1. thread'[t] \in Calls
    BY <1>1, EntriesAreParts DEF IInv, TypeOK, Calls, Pcs, At
  <2>2. thread' \in [Threads -> Calls]
    BY <1>1, <2>1 DEF IInv, TypeOK, Calls
  <2>3. QED
    BY <2>2, FaultAssumption DEF IInv, TypeOK, Enter, Calls
<1>3. HolderIsLocked'
  BY <1>1 DEF IInv, HolderIsLocked, At, Enter, MayCall, TypeOK
<1>4. CallsWellBegun'
  <2>1. WellBegun(thread'[t])
    <3>1. /\ thread'[t].todo = todo /\ thread'[t].arg = arg /\ thread'[t].pc = "lock"
          /\ thread'[t].inside = At(t, "fallback")
      BY <1>1 DEF IInv, TypeOK
    <3>2. At(t, "idle") => ~thread'[t].inside
      BY <3>1 DEF At
    <3>3. QED
      BY <3>1, <3>2 DEF WellBegun, Reporting, Clearing, Setting, Copying
  <2>2. QED
    BY <1>1, <2>1 DEF IInv, CallsWellBegun, At
<1>5. FallbacksKnown'
  BY <1>1 DEF IInv, FallbacksKnown, FallbackAt, At, Enter, MayCall, Paired, TypeOK
<1>6. HolderKnown'
  BY <1>1 DEF IInv, HolderKnown, HolderIsLocked, At, Enter, MayCall, TypeOK, Whole, Paired,
              ReportAt, HookAt
<1>7. QED
  BY <1>2, <1>3, <1>4, <1>5, <1>6 DEF IInv

\* What is left after a part has been written.
LEMMA Rests ==
  /\ Tail(<<"function", "last", "count">>) = <<"last", "count">>
  /\ Tail(<<"last", "count">>) = <<"count">>
  /\ Tail(<<"count">>) = << >>
  /\ Tail(<<"uncount", "last", "function">>) = <<"last", "function">>
  /\ Tail(<<"last", "function">>) = <<"function">>
  /\ Tail(<<"function">>) = << >>
  /\ Tail(<<"user", "userdata">>) = <<"userdata">>
  /\ Tail(<<"userdata">>) = << >>
  /\ Tail(<<"copy">>) = << >>
OBVIOUS

LEMMA Heads ==
  /\ Head(<<"function", "last", "count">>) = "function"
  /\ Head(<<"last", "count">>) = "last"
  /\ Head(<<"count">>) = "count"
  /\ Head(<<"uncount", "last", "function">>) = "uncount"
  /\ Head(<<"last", "function">>) = "last"
  /\ Head(<<"function">>) = "function"
  /\ Head(<<"user", "userdata">>) = "user"
  /\ Head(<<"userdata">>) = "userdata"
  /\ Head(<<"copy">>) = "copy"
OBVIOUS

\* No two of them are the same.
LEMMA Distinct ==
  /\ \A a, b, x : <<a, b>> # <<x>> /\ <<a, b>> # << >> /\ <<x>> # << >>
  /\ \A a, b, c, x, y : <<a, b, c>> # <<x, y>> /\ <<a, b, c>> # <<x>> /\ <<a, b, c>> # << >>
  /\ <<"count">> # <<"function">> /\ <<"count">> # <<"userdata">>
  /\ <<"function">> # <<"userdata">>
  /\ <<"last", "count">> # <<"last", "function">>
<1>1. /\ \A a, b, x : Len(<<a, b>>) # Len(<<x>>) /\ Len(<<a, b>>) # Len(<< >>)
                     /\ Len(<<x>>) # Len(<< >>)
      /\ \A a, b, c, x, y : /\ Len(<<a, b, c>>) # Len(<<x, y>>) /\ Len(<<a, b, c>>) # Len(<<x>>)
                           /\ Len(<<a, b, c>>) # Len(<< >>)
  OBVIOUS
<1>2. /\ \A a, b, x : <<a, b>> # <<x>> /\ <<a, b>> # << >> /\ <<x>> # << >>
      /\ \A a, b, c, x, y : <<a, b, c>> # <<x, y>> /\ <<a, b, c>> # <<x>> /\ <<a, b, c>> # << >>
  BY <1>1, Zenon
<1>3. <<"count">>[1] = "count" /\ <<"function">>[1] = "function" /\ <<"userdata">>[1] = "userdata"
  OBVIOUS
<1>4. <<"last", "count">>[2] = "count" /\ <<"last", "function">>[2] = "function"
  OBVIOUS
<1>5. "count" # "function" /\ "count" # "userdata" /\ "function" # "userdata"
  OBVIOUS
<1>6. /\ <<"count">> # <<"function">> /\ <<"count">> # <<"userdata">>
      /\ <<"function">> # <<"userdata">>
  BY <1>3, <1>5
<1>7. <<"last", "count">> # <<"last", "function">>
  BY <1>4, <1>5
<1>8. QED
  BY <1>2, <1>6, <1>7

\* A holder that has written a part is as well begun as before.
LEMMA TailBegun ==
  ASSUME NEW c, WellBegun(c), c \in Calls, c.pc = "locked", c.todo # << >>
  PROVE  /\ WellBegun([c EXCEPT !.todo = Tail(@)])
         /\ [c EXCEPT !.todo = Tail(@)] \in Calls
<1> DEFINE d == [c EXCEPT !.todo = Tail(@)]
<1>1. Tail(c.todo) \in Seq(Parts)
  BY DEF Calls
<1>2. /\ d.todo = Tail(c.todo) /\ d.arg = c.arg /\ d.inside = c.inside /\ d.pc = "locked"
      /\ d \in Calls
  BY <1>1 DEF Calls
<1>3. /\ c.todo \in Reporting => d.todo \in Reporting
      /\ c.todo \in Clearing => d.todo \in Clearing
      /\ c.todo \in Setting => d.todo \in Setting
      /\ c.todo \in Copying => d.todo \in Copying
  BY <1>2, Rests DEF Reporting, Clearing, Setting, Copying
<1>4. QED
  BY <1>2, <1>3 DEF WellBegun

\* What the holder may be about when it writes a part.
LEMMA WritingIs ==
  ASSUME IInv, NEW t \in Threads, NEW part, Writing(t, part)
  PROVE  /\ lock = t /\ WellBegun(thread[t]) /\ thread[t] \in Calls
         /\ thread[t].pc = "locked" /\ thread[t].todo # << >>
         /\ Head(thread[t].todo) = part
         /\ ReportAt(thread[t]) /\ HookAt(thread[t])
<1>1. lock = t /\ lock # None
  BY FaultAssumption DEF IInv, HolderIsLocked, Writing
<1>2. QED
  BY <1>1 DEF IInv, CallsWellBegun, Writing, At, TypeOK, Calls, HolderKnown

\* The parts of the invariant that a write under the lock does not reach.
LEMMA WriteKeeps ==
  ASSUME IInv, NEW t \in Threads, NEW part, Writing(t, part),
         lock' = lock, thread' = Written(t),
         hook' = hook
  PROVE  /\ thread' \in [Threads -> Calls]
         /\ thread'[t] = [thread[t] EXCEPT !.todo = Tail(@)]
         /\ HolderIsLocked' /\ CallsWellBegun' /\ FallbacksKnown'
<1>1. /\ lock = t /\ WellBegun(thread[t]) /\ thread[t] \in Calls
      /\ thread[t].pc = "locked" /\ thread[t].todo # << >>
  BY WritingIs
<1>2. /\ thread'[t] = [thread[t] EXCEPT !.todo = Tail(@)]
      /\ \A u \in Threads \ {t} : thread'[u] = thread[u]
      /\ thread' = [thread EXCEPT ![t] = thread'[t]]
  BY DEF Written, IInv, TypeOK
<1>3. thread'[t] \in Calls /\ WellBegun(thread'[t])
  BY <1>1, <1>2, TailBegun
<1>4. thread'[t].pc = "locked"
  BY <1>1, <1>2 DEF Calls
<1>5. thread' \in [Threads -> Calls]
  BY <1>2, <1>3 DEF IInv, TypeOK, Calls
<1>6. HolderIsLocked'
  BY <1>1, <1>2, <1>4 DEF IInv, HolderIsLocked, At
<1>7. CallsWellBegun'
  BY <1>2, <1>3 DEF IInv, CallsWellBegun, At
<1>8. FallbacksKnown'
  <2>1. FallbackAt(thread[t])' <=> FallbackAt(thread[t])
    BY <1>1, <1>2 DEF FallbackAt, Calls, Paired
  <2>2. \A u \in Threads \ {t} : FallbackAt(thread[u])' <=> FallbackAt(thread[u])
    BY <1>2 DEF FallbackAt, Paired
  <2>3. QED
    BY <2>1, <2>2 DEF IInv, FallbacksKnown
<1>9. QED
  BY <1>2, <1>5, <1>6, <1>7, <1>8

LEMMA WriteReport ==
  ASSUME IInv, NEW t \in Threads, WriteFunction(t) \/ WriteLast(t) \/ WriteCount(t)
  PROVE  IInv'
<1> DEFINE c == thread[t]
<1>1. /\ lock' = lock /\ hook' = hook /\ thread' = Written(t)
      /\ \E part \in Parts : Writing(t, part)
      /\ UNCHANGED <<held, calls>>
  BY DEF WriteFunction, WriteLast, WriteCount, Parts
<1>2. PICK part \in Parts : Writing(t, part)
  BY <1>1
<1>3. /\ lock = t /\ WellBegun(c) /\ c \in Calls
      /\ c.todo # << >> /\ Head(c.todo) = part /\ ReportAt(c) /\ HookAt(c)
  BY <1>2, WritingIs
<1>4. /\ thread' \in [Threads -> Calls]
      /\ thread'[t] = [c EXCEPT !.todo = Tail(@)]
      /\ HolderIsLocked' /\ CallsWellBegun' /\ FallbacksKnown'
  BY <1>1, <1>2, WriteKeeps
<1>5. c.arg \in Reports \cup {None} /\ c.todo \in Reporting \cup Clearing
  <2>1. c.todo # <<"user", "userdata">> /\ c.todo # <<"userdata">> /\ c.todo # <<"copy">>
    BY <1>2, <1>3, Heads DEF WriteFunction, WriteLast, WriteCount, Writing
  <2>2. QED
    BY <1>3, <2>1 DEF WellBegun, Setting, Copying
<1>6. diag' \in [last : Reports \cup {None}, function : Reports \cup {None}, any : BOOLEAN]
  <2>1. diag \in [last : Reports \cup {None}, function : Reports \cup {None}, any : BOOLEAN]
    BY DEF IInv, TypeOK
  <2>2. CASE WriteFunction(t)
    BY <1>5, <2>1, <2>2 DEF WriteFunction
  <2>3. CASE WriteLast(t)
    BY <1>5, <2>1, <2>3 DEF WriteLast
  <2>4. CASE WriteCount(t)
    <3>1. Writing(t, "count") \in BOOLEAN
      BY DEF Writing
    <3>2. QED
      BY <2>1, <2>4, <3>1 DEF WriteCount
  <2>5. QED
    BY <2>2, <2>3, <2>4
<1>7. TypeOK'
  BY <1>1, <1>4, <1>6 DEF IInv, TypeOK, Calls
<1>8. ReportAt(c)'
  <2>1. c'.todo = Tail(c.todo) /\ c'.arg = c.arg
    BY <1>3, <1>4 DEF Calls
  <2>2. diag \in [last : Reports \cup {None}, function : Reports \cup {None}, any : BOOLEAN]
    BY DEF IInv, TypeOK
  <2>3. ASSUME c.todo = <<"function", "last", "count">>
        PROVE  ReportAt(c)'
    <3>1. /\ c'.todo = <<"last", "count">>
          /\ diag' = [diag EXCEPT !.function = c.arg] /\ Whole
      BY <1>3, <2>1, <2>3, Rests, Heads
         DEF WriteFunction, WriteLast, WriteCount, Writing, ReportAt, Halfway
    <3>2. QED
      BY <2>1, <2>2, <3>1, Distinct DEF ReportAt, Halfway, Whole
  <2>4. ASSUME c.todo = <<"last", "count">>
        PROVE  ReportAt(c)'
    <3>1. /\ c'.todo = <<"count">>
          /\ diag' = [diag EXCEPT !.last = c.arg] /\ diag.function = c.arg
      BY <1>3, <2>1, <2>4, Rests, Heads
         DEF WriteFunction, WriteLast, WriteCount, Writing, ReportAt, Halfway
    <3>2. QED
      BY <2>1, <2>2, <3>1, Distinct DEF ReportAt, Halfway
  <2>5. ASSUME c.todo = <<"count">>
        PROVE  ReportAt(c)'
    <3>1. c.arg \in Reports /\ c.arg # None
      BY <1>3, <2>5, FaultAssumption DEF WellBegun, Clearing, Setting, Copying
    <3>2. WriteCount(t) /\ Writing(t, "count")
      BY <1>3, <2>5, Heads DEF WriteFunction, WriteLast, WriteCount, Writing
    <3>3. diag' = [diag EXCEPT !.any = TRUE]
      BY <3>2 DEF WriteCount
    <3>4. c'.todo = << >> /\ diag.function = c.arg /\ diag.last = c.arg
      BY <1>3, <2>1, <2>5, Rests DEF ReportAt, Halfway
    <3>5. QED
      BY <2>2, <3>1, <3>3, <3>4, Distinct DEF ReportAt, Halfway, Whole
  <2>6. ASSUME c.todo = <<"uncount", "last", "function">>
        PROVE  ReportAt(c)'
    <3>1. WriteCount(t) /\ ~Writing(t, "count")
      BY <1>3, <2>6, Heads DEF WriteFunction, WriteLast, WriteCount, Writing
    <3>2. diag' = [diag EXCEPT !.any = FALSE]
      <4>1. Writing(t, "count") = FALSE
        BY <3>1, Zenon DEF Writing
      <4>2. QED
        BY <3>1, <4>1 DEF WriteCount
    <3>3. c'.todo = <<"last", "function">> /\ Whole
      BY <1>3, <2>1, <2>6, Rests, Distinct DEF ReportAt, Halfway
    <3>4. QED
      BY <2>2, <3>2, <3>3, Distinct DEF ReportAt, Halfway, Whole
  <2>7. ASSUME c.todo = <<"last", "function">>
        PROVE  ReportAt(c)'
    <3>1. c.arg = None
      BY <1>3, <2>7 DEF WellBegun, Reporting, Setting, Copying
    <3>2. /\ c'.todo = <<"function">>
          /\ diag' = [diag EXCEPT !.last = c.arg] /\ ~diag.any
      BY <1>3, <2>1, <2>7, Rests, Heads
         DEF WriteFunction, WriteLast, WriteCount, Writing, ReportAt, Halfway
    <3>3. QED
      BY <2>1, <2>2, <3>1, <3>2, Distinct DEF ReportAt, Halfway
  <2>8. ASSUME c.todo = <<"function">>
        PROVE  ReportAt(c)'
    <3>1. c.arg = None
      BY <1>3, <2>8 DEF WellBegun, Reporting, Setting, Copying
    <3>2. /\ c'.todo = << >>
          /\ diag' = [diag EXCEPT !.function = c.arg] /\ ~diag.any /\ diag.last = None
      BY <1>3, <2>1, <2>8, Rests, Heads
         DEF WriteFunction, WriteLast, WriteCount, Writing, ReportAt, Halfway
    <3>3. QED
      BY <2>1, <2>2, <3>1, <3>2, Distinct DEF ReportAt, Halfway, Whole
  <2>9. QED
    BY <1>3, <1>5, <2>3, <2>4, <2>5, <2>6, <2>7, <2>8 DEF Reporting, Clearing
<1>9. HookAt(c)'
  <2>1. c'.todo = Tail(c.todo) /\ c'.arg = c.arg
    BY <1>3, <1>4 DEF Calls
  <2>2. c.todo # <<"userdata">> /\ c'.todo # <<"userdata">>
    BY <1>3, <1>5, <2>1, Rests, Distinct DEF Reporting, Clearing
  <2>3. QED
    BY <1>1, <1>3, <2>2 DEF HookAt, Paired
<1>10. QED
  BY <1>1, <1>3, <1>4, <1>7, <1>8, <1>9, FaultAssumption DEF IInv, HolderKnown

\* The holder writes the hook: every thread past the lock is told.
LEMMA WriteHook ==
  ASSUME IInv, NEW t \in Threads, WriteUser(t) \/ WriteUserdata(t)
  PROVE  IInv'
<1> DEFINE c == thread[t]
<1>1. /\ lock' = lock /\ diag' = diag /\ thread' = HookWritten(t)
      /\ \E part \in Parts : Writing(t, part)
      /\ UNCHANGED <<held, calls>>
  BY DEF WriteUser, WriteUserdata, Parts
<1>2. PICK part \in Parts : Writing(t, part)
  BY <1>1
<1>3. /\ lock = t /\ WellBegun(c) /\ c \in Calls /\ c.pc = "locked"
      /\ c.todo # << >> /\ Head(c.todo) = part /\ ReportAt(c) /\ HookAt(c)
  BY <1>2, WritingIs
<1>4. /\ thread'[t] = [c EXCEPT !.todo = Tail(@)]
      /\ \A u \in Threads \ {t} : thread'[u] = [thread[u] EXCEPT !.replaced = TRUE]
      /\ thread' \in [Threads -> Calls]
  <2>1. [c EXCEPT !.todo = Tail(@)] \in Calls
    BY <1>3, TailBegun
  <2>2. thread \in [Threads -> Calls]
    BY DEF IInv, TypeOK, Calls
  <2>3. \A u \in Threads : [thread[u] EXCEPT !.replaced = TRUE] \in Calls
    BY <2>2 DEF Calls
  <2>4. QED
    BY <1>1, <2>1, <2>2, <2>3 DEF HookWritten
<1>5. WellBegun(thread'[t]) /\ thread'[t].pc = "locked"
  <2>1. WellBegun(thread'[t])
    BY <1>3, <1>4, TailBegun
  <2>2. thread'[t].pc = "locked"
    BY <1>3, <1>4 DEF Calls
  <2>3. QED
    BY <2>1, <2>2
<1>6. \A u \in Threads \ {t} : /\ thread'[u].pc = thread[u].pc /\ thread'[u].todo = thread[u].todo
                               /\ thread'[u].arg = thread[u].arg
                               /\ thread'[u].inside = thread[u].inside
                               /\ thread'[u].replaced
  BY <1>4 DEF IInv, TypeOK
<1>7. c.arg \in Fallbacks \cup {None} /\ c.todo \in Setting
  <2>1. c.todo \in { <<"user", "userdata">>, <<"userdata">> }
    <3>1. part \in {"user", "userdata"}
      BY <1>2, <1>3 DEF WriteUser, WriteUserdata, Writing
    <3>2. QED
      BY <1>3, <3>1, Heads DEF WellBegun, Reporting, Clearing, Setting, Copying
  <2>2. c.todo \notin Reporting /\ c.todo \notin Clearing /\ c.todo \notin Copying
    <3>1. Head(c.todo) \in {"user", "userdata"}
      BY <2>1, Heads
    <3>2. QED
      BY <1>3, <3>1, Heads DEF Reporting, Clearing, Copying
  <2>3. QED
    BY <1>3, <2>2 DEF WellBegun
<1>8. TypeOK'
  <2>1. hook' \in [user : Fallbacks \cup {None}, userdata : Fallbacks \cup {None}]
    BY <1>7 DEF WriteUser, WriteUserdata, IInv, TypeOK
  <2>2. QED
    BY <1>1, <1>4, <2>1 DEF IInv, TypeOK, Calls
<1>9. HolderIsLocked'
  BY <1>1, <1>3, <1>5, <1>6 DEF IInv, HolderIsLocked, At
<1>10. CallsWellBegun'
  BY <1>5, <1>6 DEF IInv, CallsWellBegun, At, WellBegun
<1>11. FallbacksKnown'
  <2>1. FallbackAt(c)'
    BY <1>3, <1>4, <1>5 DEF IInv, FallbacksKnown, FallbackAt, Calls
  <2>2. QED
    BY <1>6, <2>1 DEF FallbacksKnown, FallbackAt
<1>12. ReportAt(c)' /\ HookAt(c)'
  <2>1. c'.todo = Tail(c.todo) /\ c'.arg = c.arg
    BY <1>3, <1>4 DEF Calls
  <2>2. c.todo \in { <<"user", "userdata">>, <<"userdata">> }
    BY <1>3, <1>7 DEF Setting
  <2>3. c.todo \notin Halfway /\ c'.todo \notin Halfway
    BY <2>1, <2>2, Rests, Distinct DEF Halfway
  <2>4. ReportAt(c)'
    <3>1. Whole
      BY <1>3, <2>3 DEF ReportAt
    <3>2. Whole'
      BY <1>1, <3>1 DEF Whole
    <3>3. QED
      BY <2>3, <3>2 DEF ReportAt, Halfway
  <2>5. CASE c.todo = <<"user", "userdata">>
    <3>1. WriteUser(t)
      BY <1>3, <2>5, Heads DEF WriteUser, WriteUserdata, Writing
    <3>2. hook'.user = c.arg
      BY <3>1 DEF WriteUser, IInv, TypeOK
    <3>3. c'.todo = <<"userdata">>
      BY <2>1, <2>5, Rests
    <3>4. QED
      BY <2>1, <2>4, <3>2, <3>3 DEF HookAt
  <2>6. CASE c.todo = <<"userdata">>
    <3>1. WriteUserdata(t)
      BY <1>3, <2>6, Heads DEF WriteUser, WriteUserdata, Writing
    <3>2. hook.user = c.arg
      BY <1>3, <2>6 DEF HookAt
    <3>3. hook'.user = c.arg /\ hook'.userdata = c.arg
      BY <3>1, <3>2 DEF WriteUserdata, IInv, TypeOK
    <3>4. c'.todo = << >>
      BY <2>1, <2>6, Rests
    <3>5. QED
      BY <2>4, <3>3, <3>4, Distinct DEF HookAt, Paired
  <2>7. QED
    BY <2>2, <2>5, <2>6
<1>13. QED
  BY <1>1, <1>3, <1>8, <1>9, <1>10, <1>11, <1>12, FaultAssumption DEF IInv, HolderKnown

LEMMA CopyStep ==
  ASSUME IInv, NEW t \in Threads, CopyReport(t)
  PROVE  IInv'
<1> DEFINE c == thread[t]
<1>1. /\ Writing(t, "copy") /\ thread' = Written(t)
      /\ UNCHANGED <<lock, diag, hook, calls>>
  BY DEF CopyReport
<1>2. /\ lock = t /\ WellBegun(c) /\ c \in Calls
      /\ c.todo # << >> /\ Head(c.todo) = "copy" /\ ReportAt(c) /\ HookAt(c)
  BY <1>1, WritingIs
<1>3. /\ thread' \in [Threads -> Calls]
      /\ thread'[t] = [c EXCEPT !.todo = Tail(@)]
      /\ HolderIsLocked' /\ CallsWellBegun' /\ FallbacksKnown'
  BY <1>1, WriteKeeps
<1>4. TypeOK'
  <2>1. held' \in [Threads -> Reports \cup {None}]
    BY DEF CopyReport, IInv, TypeOK
  <2>2. QED
    BY <1>1, <1>3, <2>1 DEF IInv, TypeOK, Calls
<1>5. c.todo = <<"copy">>
  BY <1>2, Heads DEF WellBegun, Reporting, Clearing, Setting, Copying
<1>6. c'.todo = << >>
  BY <1>2, <1>3, <1>5, Rests DEF Calls
<1>7. Whole /\ Paired
  <2>1. Head(c.todo) # "function" /\ Head(c.todo) # "last" /\ Head(c.todo) # "count"
        /\ Head(c.todo) # "userdata"
    BY <1>2
  <2>2. QED
    BY <1>2, <2>1, Heads DEF ReportAt, HookAt, Halfway
<1>8. ReportAt(c)' /\ HookAt(c)'
  BY <1>1, <1>6, <1>7, Distinct DEF ReportAt, HookAt, Halfway, Whole, Paired
<1>9. QED
  BY <1>1, <1>2, <1>3, <1>4, <1>8, FaultAssumption DEF IInv, HolderKnown

LEMMA LockStep ==
  ASSUME IInv, NEW t \in Threads, sim_context_fault_lock(t)
  PROVE  IInv'
<1> DEFINE c == thread[t]
<1>1. /\ c.pc = "lock" /\ lock = None /\ lock' = t /\ t # None
      /\ UNCHANGED <<diag, hook, held, calls>>
      /\ thread'[t] = [c EXCEPT !.pc = "locked"]
      /\ \A u \in Threads \ {t} : thread'[u] = thread[u]
  BY FaultAssumption DEF sim_context_fault_lock, At, IInv, TypeOK
<1>2. c \in Calls /\ thread \in [Threads -> Calls]
  BY DEF IInv, TypeOK, Calls
<1>3. /\ thread'[t] \in Calls /\ thread'[t].pc = "locked" /\ thread'[t].todo = c.todo
      /\ thread'[t].arg = c.arg /\ thread'[t].inside = c.inside
      /\ thread'[t].replaced = c.replaced /\ thread'[t].fallback = c.fallback
      /\ thread'[t].data = c.data
  BY <1>1, <1>2 DEF Calls, Pcs
<1>4. TypeOK'
  <2>1. thread' \in [Threads -> Calls]
    BY <1>2, <1>3 DEF sim_context_fault_lock
  <2>2. QED
    BY <1>1, <2>1 DEF IInv, TypeOK, Calls
<1>5. HolderIsLocked'
  BY <1>1, <1>3, FaultAssumption DEF IInv, HolderIsLocked, At
<1>6. CallsWellBegun'
  BY <1>1, <1>3 DEF IInv, CallsWellBegun, At, WellBegun
<1>7. FallbacksKnown'
  <2>1. FallbackAt(c)'
    BY <1>1, <1>3 DEF IInv, FallbacksKnown, FallbackAt
  <2>2. \A u \in Threads \ {t} : FallbackAt(thread[u])'
    BY <1>1 DEF IInv, FallbacksKnown, FallbackAt, Paired
  <2>3. QED
    BY <2>1, <2>2 DEF FallbacksKnown
<1>8. HolderKnown'
  <2>1. c.todo \in Entries /\ Whole /\ Paired
    BY <1>1 DEF IInv, CallsWellBegun, At, WellBegun, HolderKnown
  <2>2. c.todo \notin Halfway /\ c.todo # <<"userdata">>
    <3>1. <<"copy">> # <<"function">> /\ <<"copy">> # <<"count">> /\ <<"copy">> # <<"userdata">>
      BY Heads
    <3>2. <<"user", "userdata">> # <<"last", "count">>
          /\ <<"user", "userdata">> # <<"last", "function">>
      BY Heads
    <3>3. QED
      BY <2>1, <3>1, <3>2, Distinct DEF Entries, Halfway
  <2>3. QED
    BY <1>1, <1>3, <2>1, <2>2 DEF HolderKnown, ReportAt, HookAt, Whole, Paired, Halfway
<1>9. QED
  BY <1>4, <1>5, <1>6, <1>7, <1>8 DEF IInv

LEMMA UnlockStep ==
  ASSUME IInv, NEW t \in Threads, sim_context_fault_unlock(t)
  PROVE  IInv'
<1> DEFINE c == thread[t]
           d == IF c.inside THEN [c EXCEPT !.pc = "fallback"]
                ELSE IF c.arg \in Reports THEN [c EXCEPT !.pc = "user", !.replaced = FALSE]
                ELSE Idle
<1>1. /\ c.pc = "locked" /\ c.todo = << >> /\ lock' = None
      /\ UNCHANGED <<diag, hook, held, calls>>
      /\ thread'[t] = d
      /\ \A u \in Threads \ {t} : thread'[u] = thread[u]
  BY DEF sim_context_fault_unlock, Unlock, At, IInv, TypeOK
<1>2. c \in Calls /\ thread \in [Threads -> Calls]
  BY DEF IInv, TypeOK, Calls
<1>3. lock = t /\ t # None
  BY <1>1, FaultAssumption DEF IInv, HolderIsLocked, At
<1>4. d \in Calls /\ d.pc \in {"fallback", "user", "idle"}
  <2>1. Idle \in Calls /\ Idle.pc = "idle"
    BY DEF Calls, Pcs, Idle
  <2>2. /\ [c EXCEPT !.pc = "fallback"] \in Calls /\ [c EXCEPT !.pc = "fallback"].pc = "fallback"
        /\ [c EXCEPT !.pc = "user", !.replaced = FALSE] \in Calls
        /\ [c EXCEPT !.pc = "user", !.replaced = FALSE].pc = "user"
    BY <1>2 DEF Calls, Pcs
  <2>3. QED
    BY <2>1, <2>2
<1>5. Whole /\ Paired
  BY <1>1, <1>3, Distinct DEF IInv, HolderKnown, ReportAt, HookAt, Halfway
<1>6. TypeOK'
  <2>1. thread' \in [Threads -> Calls]
    BY <1>2, <1>4 DEF sim_context_fault_unlock, Unlock
  <2>2. QED
    BY <1>1, <2>1 DEF IInv, TypeOK, Calls
<1>7. HolderIsLocked'
  BY <1>1, <1>3, <1>4, FaultAssumption DEF IInv, HolderIsLocked, At
<1>8. CallsWellBegun'
  BY <1>1, <1>4 DEF IInv, CallsWellBegun, At
<1>9. FallbacksKnown'
  <2>1. CASE c.inside
    <3>1. /\ thread'[t].pc = "fallback" /\ thread'[t].replaced = c.replaced
          /\ thread'[t].fallback = c.fallback /\ thread'[t].data = c.data
      BY <1>1, <1>2, <2>1 DEF Calls
    <3>2. FallbackAt(c)'
      BY <1>1, <2>1, <3>1 DEF IInv, FallbacksKnown, FallbackAt
    <3>3. QED
      BY <1>1, <3>2 DEF IInv, FallbacksKnown, FallbackAt, Paired
  <2>2. CASE ~c.inside
    <3>1. thread'[t].pc = "user" \/ (thread'[t].pc = "idle" /\ ~thread'[t].inside)
      BY <1>1, <1>2, <2>2 DEF Calls, Idle
    <3>2. FallbackAt(c)'
      BY <1>1, <1>5, <3>1 DEF FallbackAt, Paired
    <3>3. QED
      BY <1>1, <3>2 DEF IInv, FallbacksKnown, FallbackAt, Paired
  <2>3. QED
    BY <2>1, <2>2
<1>10. HolderKnown'
  BY <1>1, <1>5 DEF HolderKnown, Whole, Paired
<1>11. QED
  BY <1>6, <1>7, <1>8, <1>9, <1>10 DEF IInv

\* The rest of a dispatch, which neither takes the lock nor writes.
LEMMA DispatchStep ==
  ASSUME IInv, NEW t \in Threads, NEW f \in Fallbacks \cup {None},
         ReadUser(t) \/ CallFallback(t, f) \/ FallbackReturns(t)
  PROVE  IInv'
<1> DEFINE c == thread[t]
<1>1. /\ UNCHANGED <<lock, diag, hook, held, calls>>
      /\ c.pc \in {"user", "userdata", "fallback"}
      /\ \A u \in Threads \ {t} : thread'[u] = thread[u]
      /\ thread' = [thread EXCEPT ![t] = thread'[t]]
  BY DEF ReadUser, CallFallback, FallbackReturns, At, IInv, TypeOK
<1>2. c \in Calls /\ thread \in [Threads -> Calls] /\ FallbackAt(c)
      /\ hook \in [user : Fallbacks \cup {None}, userdata : Fallbacks \cup {None}]
  BY DEF IInv, TypeOK, Calls, FallbacksKnown
<1>3. /\ thread'[t] \in Calls /\ thread'[t].pc \in {"idle", "userdata", "fallback"}
      /\ FallbackAt(c)'
  <2>1. CASE FallbackReturns(t) \/ (ReadUser(t) /\ hook.user = None)
    <3>1. thread'[t] = Idle
      BY <2>1 DEF FallbackReturns, ReadUser, IInv, TypeOK
    <3>2. QED
      BY <3>1 DEF Idle, Calls, Pcs, FallbackAt
  <2>2. CASE ReadUser(t) /\ hook.user # None
    <3>1. /\ thread'[t] = [c EXCEPT !.pc = "userdata", !.fallback = hook.user]
          /\ c.pc = "user"
      BY <2>2 DEF ReadUser, IInv, TypeOK, At
    <3>2. /\ thread'[t] \in Calls /\ thread'[t].pc = "userdata"
          /\ thread'[t].fallback = hook.user /\ thread'[t].replaced = c.replaced
      BY <1>2, <3>1 DEF Calls, Pcs
    <3>3. QED
      BY <1>1, <1>2, <2>2, <3>1, <3>2 DEF FallbackAt, Paired
  <2>3. CASE CallFallback(t, f)
    <3>1. /\ thread'[t] = [c EXCEPT !.pc = "fallback", !.fallback = f, !.data = hook.userdata]
          /\ c.pc = "userdata" /\ f \in {c.fallback, hook.user}
      BY <2>3 DEF CallFallback, IInv, TypeOK, At
    <3>2. /\ thread'[t] \in Calls /\ thread'[t].pc = "fallback"
          /\ thread'[t].fallback = f /\ thread'[t].replaced = c.replaced
          /\ thread'[t].data = hook.userdata
      BY <1>2, <3>1 DEF Calls, Pcs
    <3>3. QED
      BY <1>1, <1>2, <3>1, <3>2 DEF FallbackAt, Paired
  <2>4. QED
    BY <2>1, <2>2, <2>3
<1>4. TypeOK'
  <2>1. thread' \in [Threads -> Calls]
    BY <1>1, <1>2, <1>3
  <2>2. QED
    BY <1>1, <2>1 DEF IInv, TypeOK, Calls
<1>5. HolderIsLocked' /\ CallsWellBegun'
  BY <1>1, <1>3 DEF IInv, HolderIsLocked, CallsWellBegun, At
<1>6. FallbacksKnown'
  <2>1. \A u \in Threads \ {t} : FallbackAt(thread[u])'
    BY <1>1 DEF IInv, FallbacksKnown, FallbackAt, Paired
  <2>2. QED
    BY <1>3, <2>1 DEF FallbacksKnown
<1>7. HolderKnown'
  <2>1. lock # t
    BY <1>1, FaultAssumption DEF IInv, HolderIsLocked, At
  <2>2. QED
    BY <1>1, <2>1 DEF IInv, TypeOK, HolderKnown, Whole, Paired, ReportAt, HookAt
<1>8. QED
  BY <1>3, <1>4, <1>5, <1>6, <1>7 DEF IInv

LEMMA CallStep ==
  ASSUME IInv, NEW t \in Threads, Call(t)
  PROVE  IInv'
<1>1. ASSUME NEW r \in Reports, Dispatch(t, r)
      PROVE  IInv'
  BY <1>1, EntryStep DEF Dispatch, Entries
<1>2. ASSUME NEW f \in Fallbacks \cup {None}, sim_context_set_special_fallback(t, f)
      PROVE  IInv'
  BY <1>2, EntryStep DEF sim_context_set_special_fallback, Entries
<1>3. CASE sim_context_last_special_fault(t)
  BY <1>3, EntryStep DEF sim_context_last_special_fault, Entries
<1>4. CASE sim_context_clear_special_faults(t)
  BY <1>4, EntryStep DEF sim_context_clear_special_faults, Entries
<1>5. QED
  BY <1>1, <1>2, <1>3, <1>4 DEF Call

LEMMA InvariantStep ==
  ASSUME IInv, [Next]_vars
  PROVE  IInv'
<1>1. CASE UNCHANGED vars
  BY <1>1 DEF vars, IInv, TypeOK, HolderIsLocked, CallsWellBegun, FallbacksKnown, HolderKnown,
              At, Whole, Paired, ReportAt, HookAt, FallbackAt
<1>2. ASSUME NEW t \in Threads, Step(t)
      PROVE  IInv'
  BY <1>2, LockStep, UnlockStep, WriteReport, WriteHook, CopyStep, DispatchStep DEF Step
<1>3. QED
  BY <1>1, <1>2, CallStep DEF Next

LEMMA InvariantInit == Init => IInv
<1> SUFFICES ASSUME Init PROVE IInv
  OBVIOUS
<1>1. Idle \in Calls /\ Idle.pc = "idle" /\ ~Idle.inside
  BY DEF Idle, Calls, Pcs
<1>2. TypeOK
  BY <1>1, FaultAssumption DEF Init, TypeOK, Calls
<1>3. QED
  BY <1>1, <1>2, FaultAssumption
     DEF Init, IInv, HolderIsLocked, CallsWellBegun, FallbacksKnown, HolderKnown, At, Whole,
         Paired, FallbackAt

\* The invariant of the lock and of the dispatches past it, sim_context.c:603.
THEOREM FaultInvariant == Spec => []IInv
BY InvariantInit, InvariantStep, PTL DEF Spec

\* Types of the lock, the report, the hook and the calls.
THEOREM TypeCorrect == Spec => []TypeOK
<1>1. IInv => TypeOK
  BY DEF IInv
<1>2. QED
  BY <1>1, FaultInvariant, PTL

\* The report under the fault lock is that of one fault, sim_context.c:609.
THEOREM ReportsAreWhole == Spec => []ReportIsWhole
<1>1. IInv => ReportIsWhole
  BY DEF IInv, HolderKnown, Whole, ReportIsWhole
<1>2. QED
  BY <1>1, FaultInvariant, PTL

\* A fallback has its own user data unless the hook was replaced after the lock was
\* released, sim_context.c:621.
THEOREM FallbacksCalledAsInstalled == Spec => []CalledAsInstalled
<1>1. IInv => CalledAsInstalled
  BY DEF IInv, FallbacksKnown, FallbackAt, CalledAsInstalled, At
<1>2. QED
  BY <1>1, FaultInvariant, PTL
================================================================================
