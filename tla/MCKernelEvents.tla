---------------------------- MODULE MCKernelEvents ----------------------------
(* Events for TLC: an auto-reset and a manual header, and a handle.         *)
EXTENDS KernelEvents, TLC

CONSTANTS t1, t2, t3, auto, manual, handle

WaitCalls(op, lists, timeouts) ==
    {[op |-> op, on |-> l, timeout |-> to] : l \in lists, to \in timeouts}

(* t1 waits on several objects, t2 on one, t3 sets and resets; t2 and t3    *)
(* also share the handle.  Every operation and time-out kind occurs.        *)
MCCallsOf ==
    t1 :> (WaitCalls("WaitAny", {<<auto, manual>>}, {"finite"})
           \cup WaitCalls("WaitAll", {<<manual, auto>>}, {"infinite"}))
 @@ t2 :> (WaitCalls("KeWaitForSingleObject", {<<auto>>}, {"infinite", "finite"})
           \cup WaitCalls("NtWaitForSingleObjectEx", {<<handle>>}, {"zero"})
           \cup WaitCalls("KeSetEvent", {<<auto>>}, {"zero"}))
 @@ t3 :> (WaitCalls("KeSetEvent", {<<auto>>, <<manual>>}, {"zero"})
           \cup WaitCalls("KeResetEvent", {<<manual>>}, {"zero"})
           \cup WaitCalls("NtSetEvent", {<<handle>>}, {"zero"}))

=============================================================================
