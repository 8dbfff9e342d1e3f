-------------------------- MODULE CountingSemaphore ---------------------------
(***************************************************************************)
(* What Semaphore of runtime/kernel/imports.cpp promises to its callers: a *)
(* release adds its units at once, a wait takes one unit at once and only  *)
(* when there is one, and a wait without a limit ends in no other way.     *)
(***************************************************************************)
EXTENDS Integers

CONSTANTS Threads,
          Increments,    \* units a release may add
          InitialCount,
          Modulus        \* the count is an unsigned integer of this range

VARIABLES count,
          waiting        \* "none", or the kind of wait each thread is in

vars == <<count, waiting>>

Kinds == {"limited", "unlimited"}

Init ==
    /\ count = InitialCount
    /\ waiting = [t \in Threads |-> "none"]

Release(n) ==
    /\ count' = (count + n) % Modulus
    /\ UNCHANGED waiting

Wait(t) ==
    /\ waiting[t] = "none"
    /\ \E kind \in Kinds : waiting' = [waiting EXCEPT ![t] = kind]
    /\ UNCHANGED count

Take(t) ==
    /\ waiting[t] \in Kinds
    /\ count > 0
    /\ count' = count - 1
    /\ waiting' = [waiting EXCEPT ![t] = "none"]

GiveUp(t) ==
    /\ waiting[t] = "limited"
    /\ waiting' = [waiting EXCEPT ![t] = "none"]
    /\ UNCHANGED count

Next ==
    \/ \E n \in Increments : Release(n)
    \/ \E t \in Threads : Wait(t) \/ Take(t) \/ GiveUp(t)

Spec == Init /\ [][Next]_vars

=============================================================================
