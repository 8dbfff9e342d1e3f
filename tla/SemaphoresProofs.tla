--------------------------- MODULE SemaphoresProofs ---------------------------
(***************************************************************************)
(* Safety of Semaphores for every number of threads, limit, count range,   *)
(* set of adjustments, and with the assertion compiled in or not.          *)
(*                                                                         *)
(* The inductive invariant is the types, which hold what a thread knows    *)
(* of the count it loaded (it was not zero), with NoLostWakeup.            *)
(***************************************************************************)
EXTENDS Semaphores, TLAPS

IInv == TypeOK /\ NoLostWakeup

LEMMA InitIInv == Init => IInv
<1> SUFFICES ASSUME Init PROVE IInv
  OBVIOUS
<1>1. TypeOK
  <2>1. 0 \in 0 .. (Modulus - 1)
    BY SemaphoreAssumption
  <2>2. seen \in [Threads -> 0 .. (Modulus - 1)]
    BY <2>1 DEF Init
  <2>3. \A t \in Threads : pc[t] = "guest"
    BY DEF Init
  <2> QED
    BY <2>1, <2>2, <2>3, SemaphoreAssumption DEF Init, TypeOK, InRelease, InWait
<1>2. NoLostWakeup
  BY DEF Init, NoLostWakeup, Sleepers
<1> QED
  BY <1>1, <1>2 DEF IInv

LEMMA SumType ==
    ASSUME TypeOK, NEW t \in Threads, pc[t] \in InRelease
    PROVE  Increased(t) \in 0 .. (Modulus - 1)
<1>1. count \in Nat
  BY SemaphoreAssumption DEF TypeOK
<1>2. adjust[t] \in {0} \cup Increments
  BY DEF TypeOK
<1>3. adjust[t] \in Nat
  <2>1. {0} \cup Increments \subseteq Nat
    BY SemaphoreAssumption
  <2> QED
    BY <1>2, <2>1
<1>4. \A k \in Nat : k % Modulus \in 0 .. (Modulus - 1)
  BY SemaphoreAssumption
<1> QED
  BY <1>1, <1>3, <1>4 DEF Increased

LEMMA NextType == TypeOK /\ [Next]_vars => TypeOK'
<1> SUFFICES ASSUME TypeOK, [Next]_vars PROVE TypeOK'
  OBVIOUS
<1> USE SemaphoreAssumption DEF TypeOK, InRelease, InWait, Timeouts, Goto, Return
<1>1. ASSUME NEW t \in Threads, CallRelease(t) \/ CallWait(t) PROVE TypeOK'
  BY <1>1 DEF CallRelease, CallWait
<1>2. ASSUME NEW t \in Threads, AssertFails(t) \/ AssertHolds(t) PROVE TypeOK'
  BY <1>2 DEF AssertFails, AssertHolds
<1>3. ASSUME NEW t \in Threads, Add(t) PROVE TypeOK'
  <2>1. Increased(t) \in 0 .. (Modulus - 1)
    BY <1>3, SumType DEF Add
  <2> QED
    BY <1>3, <2>1 DEF Add
<1>4. ASSUME NEW t \in Threads, NotifyAll(t) PROVE TypeOK'
  BY <1>4 DEF NotifyAll, Sleepers
<1>5. ASSUME NEW t \in Threads, LoadUnits(t) \/ LoadZero(t) \/ Expire(t) PROVE TypeOK'
  BY <1>5 DEF LoadUnits, LoadZero, Expire
<1>6. ASSUME NEW t \in Threads, Take(t) PROVE TypeOK'
  BY <1>6 DEF Take
<1>7. ASSUME NEW t \in Threads, Retry(t) \/ PollLosesRace(t) PROVE TypeOK'
  BY <1>7 DEF Retry, PollLosesRace
<1>8. ASSUME NEW t \in Threads, Park(t) \/ SpuriousWake(t) PROVE TypeOK'
  BY <1>8 DEF Park, SpuriousWake
<1>9. CASE UNCHANGED vars
  BY <1>9 DEF vars
<1> QED
  BY <1>1, <1>2, <1>3, <1>4, <1>5, <1>6, <1>7, <1>8, <1>9 DEF Next, Step

LEMMA NextWakeup == IInv /\ [Next]_vars => NoLostWakeup'
<1> SUFFICES ASSUME TypeOK, NoLostWakeup, [Next]_vars PROVE NoLostWakeup'
  BY DEF IInv
<1> USE DEF TypeOK, NoLostWakeup, Sleepers, Goto, Return
<1>1. ASSUME NEW t \in Threads,
             \/ CallRelease(t) \/ CallWait(t) \/ AssertFails(t) \/ AssertHolds(t)
             \/ LoadUnits(t) \/ LoadZero(t) \/ Expire(t) \/ Retry(t) \/ PollLosesRace(t)
      PROVE NoLostWakeup'
  BY <1>1 DEF CallRelease, CallWait, AssertFails, AssertHolds, LoadUnits, LoadZero,
              Expire, Retry, PollLosesRace
<1>2. ASSUME NEW t \in Threads, Add(t) PROVE NoLostWakeup'
  BY <1>2 DEF Add
<1>3. ASSUME NEW t \in Threads, NotifyAll(t) PROVE NoLostWakeup'
  BY <1>3 DEF NotifyAll
<1>4. ASSUME NEW t \in Threads, Take(t) PROVE NoLostWakeup'
  BY <1>4 DEF Take
<1>5. ASSUME NEW t \in Threads, Park(t) \/ SpuriousWake(t) PROVE NoLostWakeup'
  BY <1>5 DEF Park, SpuriousWake
<1>6. CASE UNCHANGED vars
  BY <1>6 DEF vars
<1> QED
  BY <1>1, <1>2, <1>3, <1>4, <1>5, <1>6 DEF Next, Step

LEMMA SpecIInv == Spec => []IInv
<1>1. IInv /\ [Next]_vars => IInv'
  BY NextType, NextWakeup DEF IInv
<1> QED
  BY <1>1, InitIInv, PTL DEF Spec

(* The count keeps its range, and every exchange follows the load of a     *)
(* count that was not zero (Semaphore::Wait).                              *)
THEOREM TypeCorrect == Spec => []TypeOK
<1>1. IInv => TypeOK
  BY DEF IInv
<1> QED
  BY <1>1, SpecIInv, PTL

(* No thread stays asleep beside a unit that Semaphore::Release has added  *)
(* and notified.                                                           *)
THEOREM WakeupsSuffice == Spec => []NoLostWakeup
<1>1. IInv => NoLostWakeup
  BY DEF IInv
<1> QED
  BY <1>1, SpecIInv, PTL

-----------------------------------------------------------------------------
waitingBar == [t \in Threads |-> IF pc[t] \notin InWait THEN "none"
                                 ELSE IF timeout[t] = "infinite" THEN "unlimited"
                                 ELSE "limited"]

(* A call of the guest begins a wait or changes nothing the promise sees.  *)
LEMMA CallMaps ==
    ASSUME TypeOK, NEW t \in Threads, CallRelease(t) \/ CallWait(t)
    PROVE  [Promise!Next]_(Promise!vars)
<1>1. CASE CallRelease(t)
  BY <1>1 DEF CallRelease, TypeOK, InWait, InRelease, Promise!vars
<1>2. CASE CallWait(t)
  <2>1. PICK limit \in Timeouts : timeout' = [timeout EXCEPT ![t] = limit]
    BY <1>2 DEF CallWait
  <2>2. waitingBar[t] = "none"
    BY <1>2 DEF CallWait, waitingBar, InWait
  <2>3. waitingBar' = [waitingBar EXCEPT ![t] = IF limit = "infinite" THEN "unlimited"
                                                                      ELSE "limited"]
    BY <1>2, <2>1 DEF CallWait, waitingBar, TypeOK, InWait
  <2>4. Promise!Wait(t)
    BY <1>2, <2>2, <2>3 DEF CallWait, waitingBar, Promise!Wait, Promise!Kinds
  <2> QED
    BY <2>4 DEF Promise!Next
<1> QED
  BY <1>1, <1>2

(* What a thread does inside a wait and stays in it, or inside a release   *)
(* but for the addition, is invisible.                                     *)
LEMMA Invisible ==
    ASSUME TypeOK, NEW t \in Threads, UNCHANGED count,
           \A u \in Threads : pc'[u] \in InWait <=> pc[u] \in InWait,
           \A u \in Threads : pc[u] \in InWait => timeout'[u] = timeout[u]
    PROVE  UNCHANGED Promise!vars
  BY DEF Promise!vars

(* A wait that returns without a unit had a limit.                         *)
LEMMA ReturnMaps ==
    ASSUME TypeOK, NEW t \in Threads, pc[t] \in InWait, timeout[t] # "infinite",
           Return(t), UNCHANGED count
    PROVE  Promise!GiveUp(t)
<1>1. waitingBar[t] = "limited"
  BY DEF waitingBar
<1>2. waitingBar' = [waitingBar EXCEPT ![t] = "none"]
  BY DEF waitingBar, Return, TypeOK, InWait
<1> QED
  BY <1>1, <1>2 DEF waitingBar, Promise!GiveUp

LEMMA NextMaps == IInv /\ [Next]_vars => [Promise!Next]_(Promise!vars)
<1> SUFFICES ASSUME TypeOK, [Next]_vars PROVE [Promise!Next]_(Promise!vars)
  BY DEF IInv
<1> USE DEF Goto, InWait, InRelease
<1>1. ASSUME NEW t \in Threads, CallRelease(t) \/ CallWait(t)
      PROVE [Promise!Next]_(Promise!vars)
  BY <1>1, CallMaps
<1>2. ASSUME NEW t \in Threads,
             \/ AssertFails(t) \/ AssertHolds(t) \/ LoadUnits(t) \/ Retry(t)
             \/ Park(t) \/ SpuriousWake(t)
      PROVE UNCHANGED Promise!vars
  BY <1>2, Invisible
     DEF AssertFails, AssertHolds, LoadUnits, Retry, Park, SpuriousWake, TypeOK
<1>3. ASSUME NEW t \in Threads, NotifyAll(t) PROVE UNCHANGED Promise!vars
  BY <1>3, Invisible DEF NotifyAll, Sleepers, TypeOK
<1>4. ASSUME NEW t \in Threads, Add(t) PROVE [Promise!Next]_(Promise!vars)
  <2>1. waitingBar' = waitingBar
    BY <1>4 DEF Add, waitingBar, TypeOK
  <2>2. adjust[t] \in Increments
    BY <1>4 DEF Add, TypeOK
  <2>3. Promise!Release(adjust[t])
    BY <1>4, <2>1 DEF Add, Increased, waitingBar, Promise!Release
  <2> QED
    BY <2>2, <2>3 DEF Promise!Next
<1>5. ASSUME NEW t \in Threads, Take(t) PROVE [Promise!Next]_(Promise!vars)
  <2>1. count > 0 /\ count' = count - 1
    BY <1>5, SemaphoreAssumption DEF Take, TypeOK
  <2>2. waitingBar[t] \in {"limited", "unlimited"}
    BY <1>5 DEF Take, waitingBar
  <2>3. waitingBar' = [waitingBar EXCEPT ![t] = "none"]
    BY <1>5 DEF Take, Return, waitingBar, TypeOK
  <2>4. Promise!Take(t)
    BY <2>1, <2>2, <2>3 DEF waitingBar, Promise!Take, Promise!Kinds
  <2> QED
    BY <2>4 DEF Promise!Next
<1>6. ASSUME NEW t \in Threads, Expire(t) \/ PollLosesRace(t)
      PROVE [Promise!Next]_(Promise!vars)
  BY <1>6, ReturnMaps DEF Expire, PollLosesRace, Promise!Next
<1>7. ASSUME NEW t \in Threads, LoadZero(t) PROVE [Promise!Next]_(Promise!vars)
  <2>1. CASE timeout[t] = "zero" /\ Return(t)
    BY <1>7, <2>1, ReturnMaps DEF LoadZero, Promise!Next
  <2>2. CASE timeout[t] # "zero" /\ Goto(t, "compare")
    BY <1>7, <2>2, Invisible DEF LoadZero, TypeOK
  <2> QED
    BY <1>7, <2>1, <2>2 DEF LoadZero
<1>8. CASE UNCHANGED vars
  BY <1>8 DEF vars, Promise!vars
<1> QED
  BY <1>1, <1>2, <1>3, <1>4, <1>5, <1>6, <1>7, <1>8 DEF Next, Step

(* Semaphore::Wait and Semaphore::Release, with their loads, exchanges and *)
(* parkings, are the waits and releases of a counting semaphore.           *)
THEOREM Refinement == Spec => ImplementsCountingSemaphore
<1>1. Init => Promise!Init
  BY DEF Init, InWait, Promise!Init
<1> QED
  BY <1>1, SpecIInv, NextMaps, PTL DEF Spec, ImplementsCountingSemaphore, Promise!Spec

=============================================================================
