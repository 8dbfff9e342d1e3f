----------------------------- MODULE GuestThreads ------------------------------
(***************************************************************************)
(* Guest threads and their handles: GuestThreadHandle of                   *)
(* runtime/xenon/guest_thread.cpp and the calls of                         *)
(* runtime/kernel/imports.cpp that use it: ExCreateThread, KeResumeThread, *)
(* NtResumeThread, NtSuspendThread, NtWaitForSingleObjectEx, NtClose.      *)
(*                                                                         *)
(* A thread is suspended by an atomic flag in its own handle, on which     *)
(* only the thread itself waits.  A wait for a thread, and the destructor  *)
(* that NtClose runs, both test std::thread::joinable and then join; no    *)
(* lock keeps two of them apart.  A join of a thread that somebody else    *)
(* has joined or closed since the test is undefined: it may return, or the *)
(* exception it throws ends the process.                                   *)
(*                                                                         *)
(* pc[t]: absent      not created                                          *)
(*        compare     in suspended.wait(true), about to look at the flag   *)
(*        asleep      parked there                                         *)
(*        load        about to read its parameters from the handle         *)
(*        guest       runs guest code                                      *)
(*        notify      in a resume that has stored the flag                 *)
(*        test, join  in a wait, or in the destructor of a close           *)
(*        free        in a close, about to free the handle                 *)
(*        finished    its function has returned                            *)
(***************************************************************************)
EXTENDS Integers, FiniteSets

CONSTANTS Threads,
          Main        \* the thread of main(), which has no handle

ASSUME MainAssumption == Main \in Threads

VARIABLES pc,
          suspended,  \* GuestThreadHandle::suspended
          begun,      \* the thread has read its parameters
          joinable,   \* GuestThreadHandle::thread.joinable()
          handle,     \* of each thread: none, open, destroyed
          target,     \* the thread whose handle a call in progress was given
          closing,    \* the test or join belongs to NtClose
          crashed,    \* the process has ended
          awaited,    \* history: the threads each thread has waited for
          contended   \* history: two waits or closes of a thread overlapped,
                      \* or a thread waited for itself

vars == <<pc, suspended, begun, joinable, handle, target, closing, crashed,
          awaited, contended>>

Locations == {"absent", "compare", "asleep", "load", "guest", "notify",
              "test", "join", "free", "finished"}

Ending == {"test", "join", "free"}

Init ==
    /\ pc = [t \in Threads |-> IF t = Main THEN "guest" ELSE "absent"]
    /\ suspended = [t \in Threads |-> FALSE]
    /\ begun = [t \in Threads |-> t = Main]
    /\ joinable = [t \in Threads |-> FALSE]
    /\ handle = [t \in Threads |-> "none"]
    /\ target = [t \in Threads |-> Main]
    /\ closing = [t \in Threads |-> FALSE]
    /\ crashed = FALSE
    /\ awaited = [t \in Threads |-> {}]
    /\ contended = FALSE

Goto(t, location) == pc' = [pc EXCEPT ![t] = location]

-----------------------------------------------------------------------------
(* ExCreateThread, GuestThreadFunc and the end of the guest function       *)

(* A bug the code could have: a thread that does not wait to be resumed.   *)
CreateRunning(a, t) ==
    /\ pc[a] = "guest" /\ pc[t] = "absent"
    /\ \E flag \in BOOLEAN : suspended' = [suspended EXCEPT ![t] = flag]
    /\ joinable' = [joinable EXCEPT ![t] = TRUE]
    /\ handle' = [handle EXCEPT ![t] = "open"]
    /\ Goto(t, "load")
    /\ UNCHANGED <<begun, target, closing, crashed, awaited, contended>>

Create(a, t) ==
    /\ pc[a] = "guest" /\ pc[t] = "absent"
    /\ \E flag \in BOOLEAN : suspended' = [suspended EXCEPT ![t] = flag]
    /\ joinable' = [joinable EXCEPT ![t] = TRUE]
    /\ handle' = [handle EXCEPT ![t] = "open"]
    /\ Goto(t, "compare")
    /\ UNCHANGED <<begun, target, closing, crashed, awaited, contended>>

(* suspended.wait(true), of a new thread or of one that suspends itself    *)
Park(t) ==
    /\ pc[t] = "compare"
    /\ suspended[t]
    /\ Goto(t, "asleep")
    /\ UNCHANGED <<suspended, begun, joinable, handle, target, closing, crashed,
                   awaited, contended>>

Proceed(t) ==
    /\ pc[t] = "compare"
    /\ ~suspended[t]
    /\ Goto(t, IF begun[t] THEN "guest" ELSE "load")
    /\ UNCHANGED <<suspended, begun, joinable, handle, target, closing, crashed,
                   awaited, contended>>

(* The system wakes a parked thread that nobody notified.                  *)
SpuriousWake(t) ==
    /\ pc[t] = "asleep"
    /\ Goto(t, "compare")
    /\ UNCHANGED <<suspended, begun, joinable, handle, target, closing, crashed,
                   awaited, contended>>

(* GuestThread::Start reads function, value and flags from the handle.     *)
Load(t) ==
    /\ pc[t] = "load"
    /\ begun' = [begun EXCEPT ![t] = TRUE]
    /\ Goto(t, "guest")
    /\ UNCHANGED <<suspended, joinable, handle, target, closing, crashed,
                   awaited, contended>>

Finish(t) ==
    /\ pc[t] = "guest" /\ t # Main
    /\ Goto(t, "finished")
    /\ UNCHANGED <<suspended, begun, joinable, handle, target, closing, crashed,
                   awaited, contended>>

-----------------------------------------------------------------------------
(* NtSuspendThread: its assertion lets a thread suspend only itself.       *)
SuspendSelf(t) ==
    /\ pc[t] = "guest" /\ handle[t] = "open"
    /\ suspended' = [suspended EXCEPT ![t] = TRUE]
    /\ Goto(t, "compare")
    /\ UNCHANGED <<begun, joinable, handle, target, closing, crashed,
                   awaited, contended>>

(* KeResumeThread, NtResumeThread                                          *)
Resume(a, t) ==
    /\ pc[a] = "guest" /\ handle[t] = "open"
    /\ suspended' = [suspended EXCEPT ![t] = FALSE]
    /\ target' = [target EXCEPT ![a] = t]
    /\ Goto(a, "notify")
    /\ UNCHANGED <<begun, joinable, handle, closing, crashed, awaited, contended>>

(* A bug the code could have: a resume that only stores, as Mutant::Release*)
NotifyNobody(a) ==
    /\ pc[a] = "notify"
    /\ Goto(a, "guest")
    /\ UNCHANGED <<suspended, begun, joinable, handle, target, closing, crashed,
                   awaited, contended>>

Notify(a) ==
    /\ pc[a] = "notify"
    /\ pc' = [pc EXCEPT ![target[a]] = IF @ = "asleep" THEN "compare" ELSE @,
                        ![a] = "guest"]
    /\ UNCHANGED <<suspended, begun, joinable, handle, target, closing, crashed,
                   awaited, contended>>

-----------------------------------------------------------------------------
(* GuestThreadHandle::Wait and ~GuestThreadHandle                          *)

Ends(t) == {a \in Threads : pc[a] \in Ending /\ target[a] = t}

(* NtWaitForSingleObjectEx without a time-out, or NtClose, on an open      *)
(* handle.                                                                 *)
CallEnd(a, t) ==
    /\ pc[a] = "guest" /\ handle[t] = "open"
    /\ target' = [target EXCEPT ![a] = t]
    /\ \E close \in BOOLEAN : closing' = [closing EXCEPT ![a] = close]
    /\ contended' = (contended \/ a = t \/ Ends(t) # {})
    /\ Goto(a, "test")
    /\ UNCHANGED <<suspended, begun, joinable, handle, crashed, awaited>>

Joined(a) ==
    IF closing[a] THEN Goto(a, "free") /\ UNCHANGED awaited
    ELSE Goto(a, "guest") /\ awaited' = [awaited EXCEPT ![a] = @ \cup {target[a]}]

(* A bug the code could have: a destructor that detaches the thread.       *)
TestDetaches(a) ==
    /\ pc[a] = "test"
    /\ handle[target[a]] = "open"
    /\ IF joinable[target[a]] /\ ~closing[a]
       THEN Goto(a, "join") /\ UNCHANGED awaited
       ELSE Joined(a)
    /\ UNCHANGED <<suspended, begun, joinable, handle, target, closing, crashed,
                   contended>>

(* A bug the code could have: no test, a thread is joined every time.      *)
TestNothing(a) ==
    /\ pc[a] = "test"
    /\ handle[target[a]] = "open"
    /\ Goto(a, "join")
    /\ UNCHANGED <<suspended, begun, joinable, handle, target, closing, crashed,
                   awaited, contended>>

Test(a) ==
    /\ pc[a] = "test"
    /\ handle[target[a]] = "open"
    /\ IF joinable[target[a]] THEN Goto(a, "join") /\ UNCHANGED awaited
                              ELSE Joined(a)
    /\ UNCHANGED <<suspended, begun, joinable, handle, target, closing, crashed,
                   contended>>

(* A bug the code could have: a wait that does not wait for the end.       *)
JoinEarly(a) ==
    /\ pc[a] = "join"
    /\ joinable[target[a]] /\ handle[target[a]] = "open"
    /\ joinable' = [joinable EXCEPT ![target[a]] = FALSE]
    /\ Joined(a)
    /\ UNCHANGED <<suspended, begun, handle, target, closing, crashed, contended>>

Join(a) ==
    /\ pc[a] = "join"
    /\ joinable[target[a]] /\ handle[target[a]] = "open"
    /\ pc[target[a]] = "finished"
    /\ joinable' = [joinable EXCEPT ![target[a]] = FALSE]
    /\ Joined(a)
    /\ UNCHANGED <<suspended, begun, handle, target, closing, crashed, contended>>

(* Somebody else has joined the thread since the test, and the join seems  *)
(* to succeed all the same.                                                *)
JoinAgain(a) ==
    /\ pc[a] = "join"
    /\ ~joinable[target[a]] \/ handle[target[a]] = "destroyed"
    /\ Joined(a)
    /\ UNCHANGED <<suspended, begun, joinable, handle, target, closing, crashed,
                   contended>>

Free(a) ==
    /\ pc[a] = "free"
    /\ handle[target[a]] = "open"
    /\ handle' = [handle EXCEPT ![target[a]] = "destroyed"]
    /\ Goto(a, "guest")
    /\ UNCHANGED <<suspended, begun, joinable, target, closing, crashed,
                   awaited, contended>>

(* A join throws, of the thread itself or of one joined in the meantime;   *)
(* or the memory of the handle is no longer one when it is used or freed.  *)
Crash(a) ==
    /\ \/ /\ pc[a] = "join"
          /\ target[a] = a \/ ~joinable[target[a]] \/ handle[target[a]] = "destroyed"
       \/ pc[a] \in {"test", "free"} /\ handle[target[a]] = "destroyed"
    /\ crashed' = TRUE
    /\ UNCHANGED <<pc, suspended, begun, joinable, handle, target, closing,
                   awaited, contended>>

-----------------------------------------------------------------------------
Next ==
    /\ ~crashed
    /\ \E a \in Threads :
         \/ Park(a) \/ Proceed(a) \/ SpuriousWake(a) \/ Load(a) \/ Finish(a)
         \/ SuspendSelf(a) \/ Notify(a)
         \/ Test(a) \/ Join(a) \/ JoinAgain(a) \/ Free(a) \/ Crash(a)
         \/ \E t \in Threads : Create(a, t) \/ Resume(a, t) \/ CallEnd(a, t)

Spec == Init /\ [][Next]_vars

-----------------------------------------------------------------------------
TypeOK ==
    /\ pc \in [Threads -> Locations]
    /\ suspended \in [Threads -> BOOLEAN]
    /\ begun \in [Threads -> BOOLEAN]
    /\ joinable \in [Threads -> BOOLEAN]
    /\ handle \in [Threads -> {"none", "open", "destroyed"}]
    /\ target \in [Threads -> Threads]
    /\ closing \in [Threads -> BOOLEAN]
    /\ crashed \in BOOLEAN
    /\ awaited \in [Threads -> SUBSET Threads]
    /\ contended \in BOOLEAN
    /\ \A t \in Threads : (pc[t] \in {"absent", "compare", "asleep", "load"} /\ ~begun[t])
                          \/ (pc[t] \notin {"absent", "load"} /\ begun[t])

(* A handle is destroyed only when its thread is over, which reads it to   *)
(* start, to suspend itself and to be resumed.                             *)
DestroyedMeansOver ==
    \A t \in Threads : handle[t] = "destroyed" => pc[t] = "finished"

(* Whoever has waited for a thread finds its work done.                    *)
AwaitedMeansOver ==
    \A a \in Threads : \A t \in awaited[a] : pc[t] = "finished"

(* A thread runs no guest code between its suspension, at its creation or  *)
(* by itself, and the next resume.                                         *)
SuspendedThreadsWait ==
    \A t \in Threads : suspended[t] => pc[t] \in {"compare", "asleep"}

(* No resume is lost: a thread asleep with its flag down is about to be    *)
(* notified.                                                               *)
NoLostResume ==
    \A t \in Threads : pc[t] = "asleep" /\ ~suspended[t] =>
        \E a \in Threads : pc[a] = "notify" /\ target[a] = t

(* Waits and closes end the process only when two of them overlap or a     *)
(* thread waits for itself; one after the other they are safe.             *)
OnlyContentionCrashes == crashed => contended

=============================================================================
