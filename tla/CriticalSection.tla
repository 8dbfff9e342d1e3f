--------------------------- MODULE CriticalSection ---------------------------
(***************************************************************************)
(* XRTL_CRITICAL_SECTION as runtime/kernel/imports.cpp implements it:      *)
(* RtlInitializeCriticalSection, RtlEnterCriticalSection and               *)
(* RtlLeaveCriticalSection.  OwningThread is used through std::atomic_ref  *)
(* (compare-exchange, wait, store, notify_one); RecursionCount is a plain  *)
(* guest field that only the owner may touch.                              *)
(*                                                                         *)
(* A thread's position inside a call is pc[t]:                             *)
(*   guest      running guest code, no call in progress                    *)
(*   exchange   about to compare-exchange OwningThread from 0 to itself    *)
(*   count      owns the lock, about to increment RecursionCount           *)
(*   compare    in owningThread.wait(seen[t]), about to compare the value  *)
(*   asleep     in owningThread.wait(seen[t]), parked by the system        *)
(*   store      RecursionCount fell to 0, about to store owner 0           *)
(*   notify     owner 0 stored, about to call notify_one                   *)
(*                                                                         *)
(* std::atomic_ref::wait(old) compares and parks as one step with respect  *)
(* to notify, may wake for no reason, and returns only when it has read a  *)
(* value other than old.  The build is x86-64, where a weak                *)
(* compare-exchange fails only when the value differs.                     *)
(***************************************************************************)
EXTENDS Naturals

CONSTANTS Threads,     \* r13 of every guest thread: its PCR address, never 0
          NoThread,    \* the owner value 0
          MaxDepth     \* bound: how deep the guest nests Enter calls

ASSUME NoThreadAssumption == NoThread \notin Threads
ASSUME MaxDepthAssumption == MaxDepth \in Nat \ {0}

VARIABLES owner,       \* cs->OwningThread
          recursion,   \* cs->RecursionCount
          pc,          \* where each thread is
          seen,        \* previousOwner, the local variable of Enter
          depth        \* the guest's own view: its returned Enters not yet left

vars == <<owner, recursion, pc, seen, depth>>

Locations == {"guest", "exchange", "count", "compare", "asleep", "store", "notify"}

Asleep == {t \in Threads : pc[t] = "asleep"}

-----------------------------------------------------------------------------
(* RtlInitializeCriticalSection, called once before the threads share it.  *)
Init ==
    /\ owner = NoThread
    /\ recursion = 0
    /\ pc = [t \in Threads |-> "guest"]
    /\ seen = [t \in Threads |-> NoThread]
    /\ depth = [t \in Threads |-> 0]

Goto(t, location) == pc' = [pc EXCEPT ![t] = location]

(* The guest calls RtlEnterCriticalSection.                                *)
Enter(t) ==
    /\ pc[t] = "guest"
    /\ depth[t] < MaxDepth
    /\ Goto(t, "exchange")
    /\ UNCHANGED <<owner, recursion, seen, depth>>

(* The compare-exchange takes a free lock ...                              *)
TakeFree(t) ==
    /\ pc[t] = "exchange"
    /\ owner = NoThread
    /\ owner' = t
    /\ Goto(t, "count")
    /\ UNCHANGED <<recursion, seen, depth>>

(* A bug the code could have: testing that there is an owner, not who.     *)
ReenterAnyOwner(t) ==
    /\ pc[t] = "exchange"
    /\ owner # NoThread
    /\ Goto(t, "count")
    /\ UNCHANGED <<owner, recursion, seen, depth>>

(* ... or fails and finds the caller itself in previousOwner ...           *)
Reenter(t) ==
    /\ pc[t] = "exchange"
    /\ owner = t
    /\ Goto(t, "count")
    /\ UNCHANGED <<owner, recursion, seen, depth>>

(* A bug the code could have: a weak compare-exchange that fails for no    *)
(* reason leaves previousOwner at 0, and the thread waits for owner 0.     *)
FindTakenOrFailWeakly(t) ==
    /\ pc[t] = "exchange"
    /\ owner # t
    /\ seen' = [seen EXCEPT ![t] = owner]
    /\ Goto(t, "compare")
    /\ UNCHANGED <<owner, recursion, depth>>

(* ... or fails and finds another thread there, which it will wait for.    *)
FindTaken(t) ==
    /\ pc[t] = "exchange"
    /\ owner \notin {NoThread, t}
    /\ seen' = [seen EXCEPT ![t] = owner]
    /\ Goto(t, "compare")
    /\ UNCHANGED <<owner, recursion, depth>>

(* RecursionCount++, and RtlEnterCriticalSection returns.                  *)
Count(t) ==
    /\ pc[t] = "count"
    /\ recursion' = recursion + 1
    /\ depth' = [depth EXCEPT ![t] = @ + 1]
    /\ Goto(t, "guest")
    /\ UNCHANGED <<owner, seen>>

(* owningThread.wait(previousOwner): return to the loop if the owner has   *)
(* changed, park otherwise.                                                *)
CompareDiffers(t) ==
    /\ pc[t] = "compare"
    /\ owner # seen[t]
    /\ Goto(t, "exchange")
    /\ UNCHANGED <<owner, recursion, seen, depth>>

Park(t) ==
    /\ pc[t] = "compare"
    /\ owner = seen[t]
    /\ Goto(t, "asleep")
    /\ UNCHANGED <<owner, recursion, seen, depth>>

(* The system wakes a parked thread that nobody notified.                  *)
SpuriousWake(t) ==
    /\ pc[t] = "asleep"
    /\ Goto(t, "compare")
    /\ UNCHANGED <<owner, recursion, seen, depth>>

(* A bug the code could have: giving the lock up before counting down.     *)
LeaveStoresFirst(t) ==
    /\ pc[t] = "guest"
    /\ depth[t] > 0
    /\ recursion' = recursion - 1
    /\ depth' = [depth EXCEPT ![t] = @ - 1]
    /\ owner' = NoThread
    /\ Goto(t, IF recursion = 1 THEN "notify" ELSE "guest")
    /\ UNCHANGED seen

(* The guest calls RtlLeaveCriticalSection for an Enter that returned:     *)
(* RecursionCount--, and return at once if it is not 0.                    *)
Leave(t) ==
    /\ pc[t] = "guest"
    /\ depth[t] > 0
    /\ recursion' = recursion - 1
    /\ depth' = [depth EXCEPT ![t] = @ - 1]
    /\ Goto(t, IF recursion = 1 THEN "store" ELSE "guest")
    /\ UNCHANGED <<owner, seen>>

(* A bug the code could have: returning without the notification.          *)
StoreOnly(t) ==
    /\ pc[t] = "store"
    /\ owner' = NoThread
    /\ Goto(t, "guest")
    /\ UNCHANGED <<recursion, seen, depth>>

(* owningThread.store(0)                                                   *)
Store(t) ==
    /\ pc[t] = "store"
    /\ owner' = NoThread
    /\ Goto(t, "notify")
    /\ UNCHANGED <<recursion, seen, depth>>

(* owningThread.notify_one(): the system picks a parked thread, if any.    *)
NotifyOne(t) ==
    /\ pc[t] = "notify"
    /\ \/ /\ Asleep = {}
          /\ Goto(t, "guest")
       \/ \E u \in Asleep :
            pc' = [pc EXCEPT ![t] = "guest", ![u] = "compare"]
    /\ UNCHANGED <<owner, recursion, seen, depth>>

(* What a thread inside a call does without the guest's choice.            *)
Step(t) ==
    \/ TakeFree(t) \/ Reenter(t) \/ FindTaken(t) \/ Count(t)
    \/ CompareDiffers(t) \/ Park(t) \/ Store(t) \/ NotifyOne(t)

Next == \E t \in Threads : Enter(t) \/ Leave(t) \/ SpuriousWake(t) \/ Step(t)

Spec == Init /\ [][Next]_vars

(* The host's scheduler runs every thread that can run.  Nothing is        *)
(* assumed of the guest (when it enters and leaves), nor of spurious       *)
(* wakes.                                                                  *)
FairSpec == Spec /\ \A t \in Threads : WF_vars(Step(t))

-----------------------------------------------------------------------------
TypeOK ==
    /\ owner \in Threads \cup {NoThread}
    /\ recursion \in Nat
    /\ pc \in [Threads -> Locations]
    /\ seen \in [Threads -> Threads \cup {NoThread}]
    /\ depth \in [Threads -> 0 .. MaxDepth]

(* A thread that is inside the critical section is its recorded owner, and *)
(* whenever it runs guest code RecursionCount is exactly the number of     *)
(* Leave calls it still owes: the unlocked increments and decrements of    *)
(* the plain field never collide.                                          *)
OwnerAlone ==
    \A t \in Threads : depth[t] > 0 =>
        /\ owner = t
        /\ pc[t] = "guest" => recursion = depth[t]

(* Nobody sleeps beside a free lock: if OwningThread is 0 while a thread   *)
(* is parked in owningThread.wait, some other thread is already on its way *)
(* to notify it or to take the lock (and so to notify it later).           *)
NoLostWakeup ==
    owner = NoThread /\ Asleep # {} =>
        \E t \in Threads : pc[t] \in {"exchange", "compare", "notify"}

(* To the guest the critical section is a reentrant lock: Enter returns    *)
(* only while no other thread holds it, and each Leave gives one level up. *)
Lock == INSTANCE ReentrantLock WITH held <- depth
ImplementsReentrantLock == Lock!Spec

(* A free lock that somebody sleeps for is taken again, by him or another: *)
(* the wake-up that RtlLeaveCriticalSection sends is enough.               *)
FreeLockIsTaken == (owner = NoThread /\ Asleep # {}) ~> (owner # NoThread)

=============================================================================
