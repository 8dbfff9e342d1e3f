---------------------------- MODULE ReentrantLock ----------------------------
(***************************************************************************)
(* What a critical section promises to the guest program: a lock that one  *)
(* thread at a time holds, any number of times over.  No queue, no sleep,  *)
(* no owner field: only how often each thread holds it.                    *)
(***************************************************************************)
EXTENDS Naturals

CONSTANTS Threads      \* guest threads

VARIABLE held          \* held[t]: how many times t holds the lock

Init == held = [t \in Threads |-> 0]

Acquire(t) ==
    /\ \A u \in Threads \ {t} : held[u] = 0
    /\ held' = [held EXCEPT ![t] = @ + 1]

Release(t) ==
    /\ held[t] > 0
    /\ held' = [held EXCEPT ![t] = @ - 1]

Next == \E t \in Threads : Acquire(t) \/ Release(t)

Spec == Init /\ [][Next]_held

=============================================================================
