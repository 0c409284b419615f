----------------------------- MODULE SpecialFault -----------------------------
(***************************************************************************)
(* The faults of special functions that a context keeps, and the fallback  *)
(* a host may install for them: sim_context.c, the fault lock and the      *)
(* functions that take it.  Threads of the host call them while operators  *)
(* evaluate special functions; the fallback is called without the lock and *)
(* may call them again.                                                    *)
(*                                                                         *)
(* A report stands for its function's name too, and a fallback function    *)
(* for the user data it is installed with: what has been written as a pair *)
(* is recognised by its halves being equal.                                *)
(***************************************************************************)
EXTENDS Naturals, Sequences

CONSTANTS Threads, Reports, Fallbacks, None,
          MaxCalls   \* calls the host and the operators make in a run

ASSUME FaultAssumption == /\ None \notin Threads \cup Reports \cup Fallbacks
                          /\ Reports \cap Fallbacks = {}
                          /\ MaxCalls \in Nat

VARIABLES lock,     \* diag.fault_lock: the thread that has it
          diag,     \* fault_last, fault_function, and whether fault_count is positive
          hook,     \* fallback_user and fallback_userdata
          thread,   \* the running call of each thread
          held,     \* the report sim_context_last_special_fault has given it
          calls

vars == <<lock, diag, hook, thread, held, calls>>

\* todo is what a call has left to write under the lock, arg what it is about; fallback
\* and data are what a dispatch has read of the hook; replaced says that the hook has
\* been written since the dispatch released the lock; inside that the call is made by
\* a fallback, whose dispatch then goes on.
Idle == [pc |-> "idle", todo |-> << >>, arg |-> None, fallback |-> None, data |-> None,
         replaced |-> FALSE, inside |-> FALSE]

Init == /\ lock = None
        /\ diag = [last |-> None, function |-> None, any |-> FALSE]
        /\ hook = [user |-> None, userdata |-> None]
        /\ thread = [t \in Threads |-> Idle]
        /\ held = [t \in Threads |-> None]
        /\ calls = 0

At(t, pc) == thread[t].pc = pc
-------------------------------------------------------------------------------
\* A call that takes the lock and writes todo under it; a fallback makes one at most.
MayCall(t) == At(t, "idle") \/ (At(t, "fallback") /\ ~thread[t].inside)

Enter(t, todo, arg) == /\ MayCall(t) /\ calls < MaxCalls
                       /\ calls' = calls + 1
                       /\ thread' = [thread EXCEPT ![t].pc = "lock", ![t].todo = todo,
                                       ![t].arg = arg, ![t].inside = At(t, "fallback")]
                       /\ UNCHANGED <<lock, diag, hook, held>>

\* sim_context_special_fallback_dispatch.
Dispatch(t, report) == At(t, "idle") /\ Enter(t, <<"function", "last", "count">>, report)

\* A mutant: the user data of the fallback before stays.
SetFunctionOnly(t, f) == Enter(t, <<"user">>, f)

sim_context_set_special_fallback(t, f) == Enter(t, <<"user", "userdata">>, f)
sim_context_last_special_fault(t) == Enter(t, <<"copy">>, None)
sim_context_clear_special_faults(t) == Enter(t, <<"uncount", "last", "function">>, None)
-------------------------------------------------------------------------------
\* A mutant: the lock is not waited for.
LockAnyway(t) == /\ At(t, "lock")
                 /\ lock' = t
                 /\ thread' = [thread EXCEPT ![t].pc = "locked"]
                 /\ UNCHANGED <<diag, hook, held, calls>>

sim_context_fault_lock(t) == /\ At(t, "lock") /\ lock = None
                             /\ lock' = t
                             /\ thread' = [thread EXCEPT ![t].pc = "locked"]
                             /\ UNCHANGED <<diag, hook, held, calls>>

Writing(t, part) == At(t, "locked") /\ thread[t].todo # << >> /\ Head(thread[t].todo) = part
Written(t) == [thread EXCEPT ![t].todo = Tail(@)]

WriteFunction(t) == /\ Writing(t, "function")
                    /\ diag' = [diag EXCEPT !.function = thread[t].arg]
                    /\ thread' = Written(t)
                    /\ UNCHANGED <<lock, hook, held, calls>>

WriteLast(t) == /\ Writing(t, "last")
                /\ diag' = [diag EXCEPT !.last = thread[t].arg]
                /\ thread' = Written(t)
                /\ UNCHANGED <<lock, hook, held, calls>>

WriteCount(t) == /\ Writing(t, "count") \/ Writing(t, "uncount")
                 /\ diag' = [diag EXCEPT !.any = Writing(t, "count")]
                 /\ thread' = Written(t)
                 /\ UNCHANGED <<lock, hook, held, calls>>

\* Threads that have left the lock and not yet called their fallback read the hook.
HookWritten(t) == [u \in Threads |->
                     IF u = t THEN [thread[u] EXCEPT !.todo = Tail(@)]
                              ELSE [thread[u] EXCEPT !.replaced = TRUE]]

WriteUser(t) == /\ Writing(t, "user")
                /\ hook' = [hook EXCEPT !.user = thread[t].arg]
                /\ thread' = HookWritten(t)
                /\ UNCHANGED <<lock, diag, held, calls>>

WriteUserdata(t) == /\ Writing(t, "userdata")
                    /\ hook' = [hook EXCEPT !.userdata = thread[t].arg]
                    /\ thread' = HookWritten(t)
                    /\ UNCHANGED <<lock, diag, held, calls>>

\* The report is copied with its pointer to the shared buffer of the function's name.
CopyReport(t) == /\ Writing(t, "copy")
                 /\ held' = IF diag.any THEN [held EXCEPT ![t] = diag.last] ELSE held
                 /\ thread' = Written(t)
                 /\ UNCHANGED <<lock, diag, hook, calls>>

Unlock(t, released) == /\ At(t, "locked") /\ thread[t].todo = << >>
                       /\ lock' = released
                       /\ thread' = [thread EXCEPT
                            ![t] = IF @.inside THEN [@ EXCEPT !.pc = "fallback"]
                                   ELSE IF @.arg \in Reports
                                     THEN [@ EXCEPT !.pc = "user", !.replaced = FALSE]
                                     ELSE Idle]
                       /\ UNCHANGED <<diag, hook, held, calls>>

\* A mutant: a dispatch keeps the lock for its fallback.
UnlockOthers(t) == Unlock(t, IF thread[t].arg \in Reports THEN lock ELSE None)

sim_context_fault_unlock(t) == Unlock(t, None)
-------------------------------------------------------------------------------
\* The rest of the dispatch: the function is read and, if there is one, called with the
\* user data; it may be loaded once or twice.
ReadUser(t) == /\ At(t, "user")
               /\ thread' = [thread EXCEPT ![t] =
                    IF hook.user = None THEN Idle
                    ELSE [@ EXCEPT !.pc = "userdata", !.fallback = hook.user]]
               /\ UNCHANGED <<lock, diag, hook, held, calls>>

CallFallback(t, f) == /\ At(t, "userdata")
                      /\ f \in {thread[t].fallback, hook.user}
                      /\ thread' = [thread EXCEPT ![t].pc = "fallback", ![t].fallback = f,
                                                  ![t].data = hook.userdata]
                      /\ UNCHANGED <<lock, diag, hook, held, calls>>

FallbackReturns(t) == /\ At(t, "fallback")
                      /\ thread' = [thread EXCEPT ![t] = Idle]
                      /\ UNCHANGED <<lock, diag, hook, held, calls>>

Step(t) == \/ sim_context_fault_lock(t) \/ sim_context_fault_unlock(t)
           \/ WriteFunction(t) \/ WriteLast(t) \/ WriteCount(t)
           \/ WriteUser(t) \/ WriteUserdata(t) \/ CopyReport(t)
           \/ ReadUser(t) \/ FallbackReturns(t)
           \/ \E f \in Fallbacks \cup {None} : CallFallback(t, f)

Call(t) == \/ \E r \in Reports : Dispatch(t, r)
           \/ \E f \in Fallbacks \cup {None} : sim_context_set_special_fallback(t, f)
           \/ sim_context_last_special_fault(t)
           \/ sim_context_clear_special_faults(t)

Next == \E t \in Threads : Call(t) \/ Step(t)

\* A thread that is in a call is scheduled.  That one waiting for the lock gets it is
\* not assumed: a test-and-set lock promises no turn, but the calls come to an end.
Spec == Init /\ [][Next]_vars /\ \A t \in Threads : WF_vars(Step(t))
-------------------------------------------------------------------------------
Pcs == {"idle", "lock", "locked", "user", "userdata", "fallback"}
Parts == {"function", "last", "count", "uncount", "user", "userdata", "copy"}

TypeOK == /\ lock \in Threads \cup {None}
          /\ diag \in [last : Reports \cup {None}, function : Reports \cup {None},
                       any : BOOLEAN]
          /\ hook \in [user : Fallbacks \cup {None}, userdata : Fallbacks \cup {None}]
          /\ thread \in [Threads -> [pc : Pcs, todo : Seq(Parts),
                            arg : Reports \cup Fallbacks \cup {None},
                            fallback : Fallbacks \cup {None}, data : Fallbacks \cup {None},
                            replaced : BOOLEAN, inside : BOOLEAN]]
          /\ held \in [Threads -> Reports \cup {None}]
          /\ calls \in 0..MaxCalls

\* Whenever nobody has the lock the name in fault_function is that of the report in
\* fault_last, and both are there if a fault is counted: no reader finds the parts of
\* two faults, or of a fault and a clear.
ReportIsWhole == lock = None => /\ diag.function = diag.last
                                /\ diag.any <=> diag.last # None

\* A fallback is called with the user data it was installed with, and is not a null
\* pointer, unless the hook has been replaced since the dispatch released the lock: the
\* reads at the end of the dispatch are outside it.
CalledAsInstalled ==
  \A t \in Threads : At(t, "fallback") =>
    \/ thread[t].fallback # None /\ thread[t].data = thread[t].fallback
    \/ thread[t].replaced

\* Every call returns, also one that a fallback makes.
CallsReturn == \A t \in Threads : ~At(t, "idle") ~> At(t, "idle")
===============================================================================
