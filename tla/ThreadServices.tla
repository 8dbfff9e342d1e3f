---------------------------- MODULE ThreadServices ----------------------------
(***************************************************************************)
(* What a guest thread has of its own and what it shares with others by    *)
(* number: its context block on the user heap (runtime/xenon/guest_thread) *)
(* whose address the thread is known by, the spin locks and the            *)
(* thread-local storage of runtime/kernel/imports.cpp.                     *)
(*                                                                         *)
(* A thread's r13 points to its context block, and a spin lock's word is   *)
(* the r13 of the thread that took it.  GLOBAL_TLS_ALLOCATION_MUTEX is     *)
(* held by KeTlsAlloc and KeTlsFree from beginning to end, so each is one  *)
(* step; the values of a thread are a thread_local vector that grows when  *)
(* an index is first used.                                                 *)
(***************************************************************************)
EXTENDS Integers, Sequences, SequencesExt, FiniteSets

CONSTANTS GuestThreads,
          Blocks,        \* where the heap can put a context
          NoBlock,       \* the value 0 of a lock's word and of r13
          MaxIndex,      \* bound: indices below it are allocated and used, it
                         \* itself is one the guest was never given but may free
          TlsData        \* what the guest stores, apart from 0

ASSUME ServicesAssumption ==
    /\ NoBlock \notin Blocks
    /\ MaxIndex \in Nat
    /\ 0 \notin TlsData /\ TlsData \subseteq Nat

VARIABLES r13,          \* the context block of each thread that runs
          spinLock,     \* the word of a spin lock
          spinning,     \* the threads in KeAcquireSpinLockAtRaisedIrql
          holder,       \* history: the threads that returned from it
          freeIndices,  \* GLOBAL_TLS_FREE_INDICES
          nextIndex,    \* GLOBAL_TLS_NEXT_INDEX
          tlsValues,    \* s_tlsValues of each thread
          grants,       \* history: the allocations of each index not yet freed
          freedTwice,   \* history: the guest freed an index it did not have
          stored        \* history: what each thread stored last by each index

spinVars == <<spinLock, spinning, holder>>
tlsVars == <<freeIndices, nextIndex, tlsValues, grants, freedTwice, stored>>
servicesVars == <<r13, spinVars, tlsVars>>

Indices == 0 .. MaxIndex
Slots == 0 .. MaxIndex - 1
Running == {t \in GuestThreads : r13[t] # NoBlock}

ServicesInit ==
    /\ r13 = [t \in GuestThreads |-> NoBlock]
    /\ spinLock = NoBlock
    /\ spinning = {}
    /\ holder = {}
    /\ freeIndices = <<>>
    /\ nextIndex = 0
    /\ tlsValues = [t \in GuestThreads |-> <<>>]
    /\ grants = [i \in Indices |-> 0]
    /\ freedTwice = FALSE
    /\ stored = [t \in GuestThreads |-> [i \in Indices |-> 0]]

-----------------------------------------------------------------------------
(* GuestThreadContext: a block of the heap, zeroed, whose address is the   *)
(* thread's r13.  The thread's vector of values is empty, being new.       *)
StartContext(t) ==
    /\ r13[t] = NoBlock
    /\ \E b \in Blocks \ {r13[u] : u \in GuestThreads} :
         r13' = [r13 EXCEPT ![t] = b]
    /\ UNCHANGED <<spinVars, tlsVars>>

(* The end of GuestThread::Start frees the block; the host thread ends and *)
(* with it its thread_local vector.  The guest leaves no lock taken.       *)
EndContext(t) ==
    /\ t \in Running \ (holder \cup spinning)
    /\ r13' = [r13 EXCEPT ![t] = NoBlock]
    /\ tlsValues' = [tlsValues EXCEPT ![t] = <<>>]
    /\ stored' = [stored EXCEPT ![t] = [i \in Indices |-> 0]]
    /\ UNCHANGED <<spinVars, freeIndices, nextIndex, grants, freedTwice>>

-----------------------------------------------------------------------------
CallAcquire(t) ==
    /\ t \in Running \ (holder \cup spinning)
    /\ spinning' = spinning \cup {t}
    /\ UNCHANGED <<r13, spinLock, holder, tlsVars>>

(* The compare-exchange of the loop: a thread that finds another value     *)
(* yields and tries again.                                                 *)
KeAcquireSpinLockAtRaisedIrql(t) ==
    /\ t \in spinning
    /\ spinLock = NoBlock
    /\ spinLock' = r13[t]
    /\ spinning' = spinning \ {t}
    /\ holder' = holder \cup {t}
    /\ UNCHANGED <<r13, tlsVars>>

(* The same loop.                                                          *)
KfAcquireSpinLock(t) == KeAcquireSpinLockAtRaisedIrql(t)

(* A store of 0, by whoever calls; the guest calls it with the lock held.  *)
KeReleaseSpinLockFromRaisedIrql(t) ==
    /\ t \in holder
    /\ spinLock' = NoBlock
    /\ holder' = holder \ {t}
    /\ UNCHANGED <<r13, spinning, tlsVars>>

KfReleaseSpinLock(t) == KeReleaseSpinLockFromRaisedIrql(t)

-----------------------------------------------------------------------------
Grant(i) == grants' = [grants EXCEPT ![i] = @ + 1]

(* A bug the code could have: the index stays in the free list.            *)
AllocWithoutPop(t) ==
    /\ t \in Running
    /\ \/ /\ freeIndices # <<>>
          /\ Grant(Last(freeIndices))
          /\ UNCHANGED nextIndex
       \/ /\ freeIndices = <<>>
          /\ nextIndex < MaxIndex
          /\ Grant(nextIndex)
          /\ nextIndex' = nextIndex + 1
    /\ UNCHANGED <<r13, spinVars, freeIndices, tlsValues, freedTwice, stored>>

(* The index freed last, or one that was never handed out.                 *)
KeTlsAlloc(t) ==
    /\ t \in Running
    /\ \/ /\ freeIndices # <<>>
          /\ freeIndices' = Front(freeIndices)
          /\ Grant(Last(freeIndices))
          /\ UNCHANGED nextIndex
       \/ /\ freeIndices = <<>>
          /\ nextIndex < MaxIndex
          /\ Grant(nextIndex)
          /\ nextIndex' = nextIndex + 1
          /\ UNCHANGED freeIndices
    /\ UNCHANGED <<r13, spinVars, tlsValues, freedTwice, stored>>

(* No test of the index: any number is pushed, and no value is cleared.    *)
KeTlsFree(t, i) ==
    /\ t \in Running
    /\ Len(freeIndices) < MaxIndex
    /\ freeIndices' = Append(freeIndices, i)
    /\ grants' = [grants EXCEPT ![i] = IF @ > 0 THEN @ - 1 ELSE 0]
    /\ freedTwice' = (freedTwice \/ grants[i] = 0)
    /\ UNCHANGED <<r13, spinVars, nextIndex, tlsValues, stored>>

(* KeTlsGetValueRef: the vector has the index from now on, its new values  *)
(* being 0.  A vector's element i is the sequence's element i + 1.         *)
Grown(values, i) ==
    IF Len(values) > i THEN values
    ELSE [n \in 1 .. i + 1 |-> IF n <= Len(values) THEN values[n] ELSE 0]

KeTlsGetValue(t, i) ==
    /\ t \in Running
    /\ tlsValues' = [tlsValues EXCEPT ![t] = Grown(@, i)]
    /\ UNCHANGED <<r13, spinVars, freeIndices, nextIndex, grants, freedTwice, stored>>

KeTlsSetValue(t, i, value) ==
    /\ t \in Running
    /\ tlsValues' = [tlsValues EXCEPT ![t] = [Grown(@, i) EXCEPT ![i + 1] = value]]
    /\ stored' = [stored EXCEPT ![t][i] = value]
    /\ UNCHANGED <<r13, spinVars, freeIndices, nextIndex, grants, freedTwice>>

-----------------------------------------------------------------------------
ContextStep(t) == StartContext(t) \/ EndContext(t)

LockStep(t) ==
    \/ CallAcquire(t)
    \/ KeAcquireSpinLockAtRaisedIrql(t) \/ KfAcquireSpinLock(t)
    \/ KeReleaseSpinLockFromRaisedIrql(t) \/ KfReleaseSpinLock(t)

TlsStep(t) ==
    \/ KeTlsAlloc(t)
    \/ \E i \in Indices : KeTlsFree(t, i)
    \/ \E i \in Slots :
         \/ KeTlsGetValue(t, i)
         \/ \E value \in TlsData : KeTlsSetValue(t, i, value)

ServicesNext == \E t \in GuestThreads : ContextStep(t) \/ LockStep(t) \/ TlsStep(t)

ServicesSpec == ServicesInit /\ [][ServicesNext]_servicesVars

-----------------------------------------------------------------------------
(* While the guest frees only what it was given, no index is in the hands  *)
(* of two owners: an index pushed by KeTlsFree is taken by one KeTlsAlloc. *)
IndexHasOneOwner == ~freedTwice => \A i \in Indices : grants[i] <= 1

(* The word of a taken spin lock is the r13 of the one thread that holds   *)
(* it: no two running threads have the same context block.                 *)
LockNamesItsHolder ==
    IF spinLock = NoBlock THEN holder = {}
    ELSE \E t \in Running :
            holder = {t} /\ {u \in GuestThreads : r13[u] = spinLock} = {t}

(* A thread reads by an index what it stored there last, or 0, although    *)
(* others use the same index and its vector grows in between.              *)
ValuesAreTheThreads ==
    \A t \in GuestThreads, i \in Indices :
       (IF i < Len(tlsValues[t]) THEN tlsValues[t][i + 1] ELSE 0) = stored[t][i]

=============================================================================
