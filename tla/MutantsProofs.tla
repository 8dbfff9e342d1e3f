----------------------------- MODULE MutantsProofs ----------------------------
(***************************************************************************)
(* Safety of Mutants for every number of threads.  TypeOK /\ OneOwner is   *)
(* inductive: the flag alone, taken by an exchange and cleared by the      *)
(* owner, keeps a second owner out.                                        *)
(***************************************************************************)
EXTENDS Mutants, TLAPS

IInv == TypeOK /\ OneOwner

LEMMA InitIInv == Init => IInv
  BY MutantAssumption DEF Init, IInv, TypeOK, OneOwner, InWait, Timeouts

LEMMA NextIInv == IInv /\ [Next]_vars => IInv'
<1> SUFFICES ASSUME IInv, [Next]_vars PROVE IInv'
  OBVIOUS
<1> USE DEF IInv, TypeOK, OneOwner, InWait, Timeouts, Goto, Return
<1>1. ASSUME NEW t \in Threads, CallWait(t) PROVE IInv'
  BY <1>1 DEF CallWait
<1>2. ASSUME NEW t \in Threads, Take(t) PROVE IInv'
  BY <1>2 DEF Take
<1>3. ASSUME NEW t \in Threads, PollFails(t) \/ Expire(t) PROVE IInv'
  BY <1>3 DEF PollFails, Expire
<1>4. ASSUME NEW t \in Threads, Miss(t) \/ Park(t) \/ ReturnToLoop(t) \/ SpuriousWake(t)
      PROVE IInv'
  BY <1>4 DEF Miss, Park, ReturnToLoop, SpuriousWake
<1>5. ASSUME NEW t \in Threads, Release(t) PROVE IInv'
  BY <1>5 DEF Release
<1>6. CASE UNCHANGED vars
  BY <1>6 DEF vars
<1> QED
  BY <1>1, <1>2, <1>3, <1>4, <1>5, <1>6 DEF Next, Step

LEMMA SpecIInv == Spec => []IInv
  BY InitIInv, NextIInv, PTL DEF Spec

(* A wait of Mutant::Wait polls just when it was given a time-out of zero, *)
(* and every other variable keeps its type.                                *)
THEOREM TypeCorrect == Spec => []TypeOK
<1>1. IInv => TypeOK
  BY DEF IInv
<1> QED
  BY <1>1, SpecIInv, PTL

(* NtWaitForSingleObjectEx and NtReleaseMutant exclude: no two threads own *)
(* the mutant, although the code records no owner.                         *)
THEOREM Exclusion == Spec => []OneOwner
<1>1. IInv => OneOwner
  BY DEF IInv
<1> QED
  BY <1>1, SpecIInv, PTL

-----------------------------------------------------------------------------
waitingBar == [t \in Threads |-> IF pc[t] \notin InWait THEN "none"
                                 ELSE IF timeout[t] = "infinite" THEN "unlimited"
                                 ELSE "limited"]

LEMMA NextMaps == IInv /\ [Next]_vars => [Promise!Next]_(Promise!vars)
<1> SUFFICES ASSUME TypeOK, OneOwner, [Next]_vars PROVE [Promise!Next]_(Promise!vars)
  BY DEF IInv
<1>1. ASSUME NEW t \in Threads, CallWait(t) PROVE [Promise!Next]_(Promise!vars)
  <2>1. PICK limit \in Timeouts :
          /\ timeout' = [timeout EXCEPT ![t] = limit]
          /\ pc' = [pc EXCEPT ![t] = IF limit = "zero" THEN "poll" ELSE "look"]
    BY <1>1 DEF CallWait
  <2>2. waitingBar[t] = "none"
    BY <1>1 DEF CallWait, waitingBar, InWait
  <2>3. waitingBar' = [waitingBar EXCEPT ![t] = IF limit = "infinite" THEN "unlimited"
                                                                      ELSE "limited"]
    BY <2>1 DEF waitingBar, TypeOK, InWait
  <2>4. Promise!Wait(t)
    BY <1>1, <2>2, <2>3 DEF CallWait, waitingBar, Promise!Wait, Promise!Kinds
  <2> QED
    BY <2>4 DEF Promise!Next
<1>2. ASSUME NEW t \in Threads, Take(t) PROVE [Promise!Next]_(Promise!vars)
  <2>1. waitingBar[t] \in {"limited", "unlimited"}
    BY <1>2 DEF Take, waitingBar, InWait
  <2>2. waitingBar' = [waitingBar EXCEPT ![t] = "none"]
    BY <1>2 DEF Take, Return, waitingBar, TypeOK, InWait
  <2>3. Promise!Take(t)
    BY <1>2, <2>1, <2>2 DEF Take, waitingBar, Promise!Take, Promise!Kinds
  <2> QED
    BY <2>3 DEF Promise!Next
<1>3. ASSUME NEW t \in Threads, PollFails(t) \/ Expire(t)
      PROVE [Promise!Next]_(Promise!vars)
  <2>1. pc[t] \in {"poll", "look"} /\ timeout[t] # "infinite" /\ Return(t)
        /\ UNCHANGED locked
    BY <1>3 DEF PollFails, Expire, TypeOK
  <2>2. waitingBar[t] = "limited"
    BY <2>1 DEF waitingBar, InWait
  <2>3. waitingBar' = [waitingBar EXCEPT ![t] = "none"]
    BY <2>1 DEF Return, waitingBar, TypeOK, InWait
  <2>4. Promise!GiveUp(t)
    BY <2>1, <2>2, <2>3 DEF waitingBar, Promise!GiveUp
  <2> QED
    BY <2>4 DEF Promise!Next
<1>4. ASSUME NEW t \in Threads, Miss(t) \/ Park(t) \/ ReturnToLoop(t) \/ SpuriousWake(t)
      PROVE UNCHANGED Promise!vars
  BY <1>4 DEF Miss, Park, ReturnToLoop, SpuriousWake, Goto, InWait, TypeOK, Promise!vars
<1>5. ASSUME NEW t \in Threads, Release(t) PROVE [Promise!Next]_(Promise!vars)
  <2>1. locked /\ ~locked' /\ UNCHANGED <<pc, timeout>>
    BY <1>5 DEF Release, OneOwner
  <2>2. Promise!Release(1)
    BY <2>1 DEF Promise!Release
  <2> QED
    BY <2>2 DEF Promise!Next
<1>6. CASE UNCHANGED vars
  BY <1>6 DEF vars, Promise!vars
<1> QED
  BY <1>1, <1>2, <1>3, <1>4, <1>5, <1>6 DEF Next, Step

(* Mutant::Wait and Mutant::Release are a semaphore of one unit: a wait    *)
(* without a limit ends only with the mutant taken.                        *)
THEOREM Refinement == Spec => ImplementsBinarySemaphore
<1>1. Init => Promise!Init
  BY DEF Init, InWait, Promise!Init
<1> QED
  BY <1>1, SpecIInv, NextMaps, PTL DEF Spec, ImplementsBinarySemaphore, Promise!Spec

=============================================================================
