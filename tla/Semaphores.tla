------------------------------ MODULE Semaphores ------------------------------
(***************************************************************************)
(* A semaphore of runtime/kernel/imports.cpp: struct Semaphore (Wait and   *)
(* Release) as KeWaitForSingleObject and KeReleaseSemaphore reach it.      *)
(*                                                                         *)
(* Semaphore::count is an atomic used with wait and notify_all: wait(0)    *)
(* compares and parks as one step with respect to the notification and may *)
(* wake for no reason.  On x86-64 the weak compare-exchange fails only     *)
(* when the count is not the one loaded.                                   *)
(*                                                                         *)
(* pc[t] inside a call:                                                    *)
(*   check, add, notify    Semaphore::Release                              *)
(*   load                  head of a loop of Semaphore::Wait               *)
(*   exchange              about to compare-exchange the loaded count      *)
(*   compare, asleep       inside count.wait(0)                            *)
(***************************************************************************)
EXTENDS Integers

CONSTANTS Threads,
          InitialCount,  \* KeInitializeSemaphore's count
          Limit,         \* and its limit, Semaphore::max_count
          Increments,    \* adjustments the guest passes to KeReleaseSemaphore
          Modulus,       \* 2^32, the range of count
          Asserts        \* assertions are compiled in (the Debug configuration)

ASSUME SemaphoreAssumption ==
    /\ Modulus \in Nat /\ Modulus > 1
    /\ InitialCount \in 0 .. (Modulus - 1)
    /\ Limit \in Nat
    /\ Increments \subseteq Nat
    /\ Asserts \in BOOLEAN

VARIABLES count,     \* Semaphore::count
          pc,        \* where each thread is
          timeout,   \* what the wait it is in was given
          adjust,    \* what the release it is in was given
          seen,      \* currentCount of the wait it is in
          aborted    \* an assertion has failed and stopped the process

vars == <<count, pc, timeout, adjust, seen, aborted>>

Timeouts == {"zero", "infinite", "finite"}
InRelease == {"check", "add", "notify"}
InWait == {"load", "exchange", "compare", "asleep"}
Sleepers == {t \in Threads : pc[t] = "asleep"}

Init ==
    /\ count = InitialCount
    /\ pc = [t \in Threads |-> "guest"]
    /\ timeout = [t \in Threads |-> "none"]
    /\ adjust = [t \in Threads |-> 0]
    /\ seen = [t \in Threads |-> 0]
    /\ aborted = FALSE

Goto(t, location) ==
    /\ pc' = [pc EXCEPT ![t] = location]
    /\ UNCHANGED <<timeout, adjust>>

(* The call returns, and its parameters and locals are gone.               *)
Return(t) ==
    /\ pc' = [pc EXCEPT ![t] = "guest"]
    /\ timeout' = [timeout EXCEPT ![t] = "none"]
    /\ adjust' = [adjust EXCEPT ![t] = 0]
    /\ seen' = [seen EXCEPT ![t] = 0]

CallRelease(t) ==
    /\ pc[t] = "guest"
    /\ \E n \in Increments : adjust' = [adjust EXCEPT ![t] = n]
    /\ pc' = [pc EXCEPT ![t] = "check"]
    /\ UNCHANGED <<count, timeout, seen, aborted>>

CallWait(t) ==
    /\ pc[t] = "guest"
    /\ \E limit \in Timeouts : timeout' = [timeout EXCEPT ![t] = limit]
    /\ pc' = [pc EXCEPT ![t] = "load"]
    /\ UNCHANGED <<count, adjust, seen, aborted>>

-----------------------------------------------------------------------------
(* Semaphore::Release                                                      *)

Increased(t) == (count + adjust[t]) % Modulus

AssertFails(t) ==
    /\ pc[t] = "check"
    /\ Asserts /\ Increased(t) > Limit
    /\ aborted' = TRUE
    /\ UNCHANGED <<count, pc, timeout, adjust, seen>>

AssertHolds(t) ==
    /\ pc[t] = "check"
    /\ Asserts => Increased(t) <= Limit
    /\ Goto(t, "add")
    /\ UNCHANGED <<count, seen, aborted>>

Add(t) ==
    /\ pc[t] = "add"
    /\ count' = Increased(t)
    /\ Goto(t, "notify")
    /\ UNCHANGED <<seen, aborted>>

NotifyAll(t) ==
    /\ pc[t] = "notify"
    /\ pc' = [s \in Threads |-> IF s = t THEN "guest"
                                ELSE IF s \in Sleepers THEN "compare" ELSE pc[s]]
    /\ adjust' = [adjust EXCEPT ![t] = 0]
    /\ UNCHANGED <<count, timeout, seen, aborted>>

-----------------------------------------------------------------------------
(* Semaphore::Wait                                                         *)

LoadUnits(t) ==
    /\ pc[t] = "load"
    /\ count # 0
    /\ seen' = [seen EXCEPT ![t] = count]
    /\ Goto(t, "exchange")
    /\ UNCHANGED <<count, aborted>>

LoadZero(t) ==
    /\ pc[t] = "load"
    /\ count = 0
    /\ \/ timeout[t] = "zero" /\ Return(t)
       \/ timeout[t] # "zero" /\ Goto(t, "compare") /\ seen' = [seen EXCEPT ![t] = 0]
    /\ UNCHANGED <<count, aborted>>

(* The timed loop finds its time elapsed, which only its head looks at.    *)
Expire(t) ==
    /\ pc[t] = "load"
    /\ timeout[t] = "finite"
    /\ Return(t)
    /\ UNCHANGED <<count, aborted>>

(* A bug the code could have: a store of the decremented count.            *)
TakeBlindly(t) ==
    /\ pc[t] = "exchange"
    /\ count' = seen[t] - 1
    /\ Return(t)
    /\ UNCHANGED <<aborted>>

Take(t) ==
    /\ pc[t] = "exchange"
    /\ count = seen[t]
    /\ count' = seen[t] - 1
    /\ Return(t)
    /\ UNCHANGED <<aborted>>

(* A bug the code could have: count.load() hoisted out of the loop.        *)
RetryWithoutLoad(t) ==
    /\ pc[t] = "exchange"
    /\ count # seen[t]
    /\ timeout[t] # "zero"
    /\ Goto(t, "exchange")
    /\ UNCHANGED <<count, seen, aborted>>

(* The exchange has lost a race, and the loop goes round again.            *)
Retry(t) ==
    /\ pc[t] = "exchange"
    /\ count # seen[t]
    /\ timeout[t] # "zero"
    /\ Goto(t, "load")
    /\ UNCHANGED <<count, seen, aborted>>

(* A poll that loses the race gives up, whatever the count is by now.      *)
PollLosesRace(t) ==
    /\ pc[t] = "exchange"
    /\ count # seen[t]
    /\ timeout[t] = "zero"
    /\ Return(t)
    /\ UNCHANGED <<count, aborted>>

(* count.wait(0)                                                           *)
Park(t) ==
    /\ pc[t] = "compare"
    /\ Goto(t, IF count = 0 THEN "asleep" ELSE "load")
    /\ UNCHANGED <<count, seen, aborted>>

(* The system wakes a parked thread that nobody notified.                  *)
SpuriousWake(t) ==
    /\ pc[t] = "asleep"
    /\ Goto(t, "compare")
    /\ UNCHANGED <<count, seen, aborted>>

-----------------------------------------------------------------------------
Step(t) ==
    \/ AssertFails(t) \/ AssertHolds(t) \/ Add(t) \/ NotifyAll(t)
    \/ LoadUnits(t) \/ LoadZero(t) \/ Take(t) \/ Retry(t) \/ PollLosesRace(t) \/ Park(t)

Next ==
    /\ ~aborted
    /\ \E t \in Threads :
         CallRelease(t) \/ CallWait(t) \/ Expire(t) \/ SpuriousWake(t) \/ Step(t)

Spec == Init /\ [][Next]_vars

(* The host's scheduler runs every thread that can run; guest calls, the   *)
(* clock and spurious wakes come as they please.                           *)
FairSpec == Spec /\ \A t \in Threads : WF_vars(~aborted /\ Step(t))

-----------------------------------------------------------------------------
TypeOK ==
    /\ count \in 0 .. (Modulus - 1)
    /\ pc \in [Threads -> {"guest"} \cup InRelease \cup InWait]
    /\ timeout \in [Threads -> {"none"} \cup Timeouts]
    /\ adjust \in [Threads -> {0} \cup Increments]
    /\ seen \in [Threads -> 0 .. (Modulus - 1)]
    /\ \A t \in Threads :
         /\ pc[t] \in InRelease => adjust[t] \in Increments
         /\ pc[t] \in InWait => timeout[t] \in Timeouts
         /\ pc[t] = "exchange" => seen[t] # 0
    /\ aborted \in BOOLEAN

(* No thread sleeps beside a unit, unless a release has yet to notify:     *)
(* notify_all is enough although one release may add several units.        *)
NoLostWakeup ==
    count # 0 /\ Sleepers # {} => \E t \in Threads : pc[t] = "notify"

(* Seen through count and the kind of wait each thread is in, the loads,   *)
(* exchanges and parkings are those of a counting semaphore: no unit is    *)
(* taken twice or lost, and no unlimited wait ends without one.            *)
Promise == INSTANCE CountingSemaphore WITH
    waiting <- [t \in Threads |-> IF pc[t] \notin InWait THEN "none"
                                  ELSE IF timeout[t] = "infinite" THEN "unlimited"
                                  ELSE "limited"]

ImplementsCountingSemaphore == Promise!Spec

(* Waiting is lock-free: a thread that waits for ever although units are    *)
(* there again and again loses them to other threads, which take units     *)
(* again and again.  The code promises no more: a waiter whose exchange    *)
(* loses every race starves (semaphores have no queue).                    *)
UnitsReachWaiters ==
    \A t \in Threads :
        /\ <>[](pc[t] \in InWait /\ ~aborted)
        /\ []<>(count > 0)
        => []<><<\E s \in Threads : Take(s)>>_vars

(* What the assertion of Semaphore::Release says of the count.             *)
CountWithinLimit == count <= Limit

=============================================================================
