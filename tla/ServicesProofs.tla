---------------------------- MODULE ServicesProofs ----------------------------
(***************************************************************************)
(* Safety of what the runtime gives its guest threads: CriticalSection,    *)
(* ThreadServices, AudioDriver, Notifications, Pipeline and Conversions,   *)
(* for every value of their constants.                                     *)
(*                                                                         *)
(* Critical sections (the last part; Spec is theirs): SectionInv.          *)
(* OwnerAlone speaks of threads that run guest code; to be inductive it    *)
(* has to say what holds at every location inside a call (OwnerInv), that  *)
(* the count is back to 0 whenever the owner is (FreeInv), and that Enter  *)
(* is called below the nesting bound only (BoundInv).  NoLostWakeup needs  *)
(* one more fact: nobody ever waits for the owner value 0 (SeenInv).  The  *)
(* section implements ReentrantLock.                                       *)
(*                                                                         *)
(* Thread services: three invariants, each inductive with the types, of    *)
(* the indices (those in the free list are distinct, were handed out       *)
(* before and are in nobody's hands), of the locks (no two running threads *)
(* share a context block) and of the values.                               *)
(*                                                                         *)
(* Audio: AudioInv.  The mixing that is noted is the device's; orderly     *)
(* calls do one step after the other; and the thread is in its loop only   *)
(* while neither can change, so what it has read of them is still so.      *)
(*                                                                         *)
(* Notifications: NotifyInv.  Until a data race happens no listener is     *)
(* erased during a loop, so a loop brings its event to every listener; its *)
(* serial is that of the last event of its thread; and what a listener has *)
(* read and has queued, taken together, only grows at its end.             *)
(*                                                                         *)
(* Pipelines: PipelineInv.  A sampler's number is the encoding of the      *)
(* three filters it was last asked for; a field is never under the name of *)
(* a parameter that writes another one, so what is asked of a parameter    *)
(* bears on the one field it writes.                                       *)
(*                                                                         *)
(* Conversions: ConversionsInv.  What the two calls of a conversion leave  *)
(* between them is a text, cut off where the buffer ends, and its length.  *)
(***************************************************************************)
EXTENDS CriticalSection, ThreadServices, AudioDriver, Notifications, Pipeline,
        Conversions, SequenceTheorems, TLAPS

ServicesTypeOK ==
    /\ r13 \in [GuestThreads -> Blocks \cup {NoBlock}]
    /\ spinning \subseteq GuestThreads /\ holder \subseteq GuestThreads
    /\ freeIndices \in Seq(Indices)
    /\ nextIndex \in 0 .. MaxIndex
    /\ tlsValues \in [GuestThreads -> Seq(Nat)]
    /\ grants \in [Indices -> Nat]
    /\ freedTwice \in BOOLEAN
    /\ stored \in [GuestThreads -> [Indices -> Nat]]

(* While the guest keeps to what it was given: an index in the free list   *)
(* is there once and has no owner, nor has one never handed out.           *)
FreeListOK ==
    ~freedTwice =>
        /\ IndexHasOneOwner
        /\ \A k \in 1 .. Len(freeIndices) :
             freeIndices[k] < nextIndex /\ grants[freeIndices[k]] = 0
        /\ \A k, l \in 1 .. Len(freeIndices) :
             freeIndices[k] = freeIndices[l] => k = l
        /\ \A i \in Indices : i >= nextIndex => grants[i] = 0

LocksOK ==
    /\ \A t, u \in Running : r13[t] = r13[u] => t = u
    /\ holder \subseteq Running /\ spinning \subseteq Running
    /\ spinning \cap holder = {}
    /\ LockNamesItsHolder

-----------------------------------------------------------------------------
(* KeTlsGetValueRef keeps the values that the vector has and gives new     *)
(* indices 0, so that index i can be read and assigned afterwards.         *)
LEMMA GrownKeepsValues ==
    ASSUME NEW values \in Seq(Nat), NEW i \in Nat
    PROVE  /\ Grown(values, i) \in Seq(Nat)
           /\ Len(Grown(values, i)) > i /\ Len(Grown(values, i)) >= Len(values)
           /\ \A n \in 1 .. Len(Grown(values, i)) :
                Grown(values, i)[n] = IF n <= Len(values) THEN values[n] ELSE 0
<1>1. CASE Len(values) > i
  BY <1>1 DEF Grown
<1>2. CASE ~(Len(values) > i)
  <2> DEFINE longer == [n \in 1 .. i + 1 |-> IF n <= Len(values) THEN values[n] ELSE 0]
  <2>1. \A n \in 1 .. i + 1 : (IF n <= Len(values) THEN values[n] ELSE 0) \in Nat
    OBVIOUS
  <2>2. longer \in Seq(Nat) /\ Len(longer) = i + 1
    BY <2>1
  <2> QED
    BY <1>2, <2>2 DEF Grown
<1> QED
  BY <1>1, <1>2

(* What KeTlsAlloc takes from the free list, and what it leaves there.      *)
LEMMA FrontAndLast ==
    ASSUME NEW S, NEW s \in Seq(S), s # <<>>
    PROVE  /\ Front(s) \in Seq(S) /\ Len(Front(s)) = Len(s) - 1
           /\ \A k \in 1 .. Len(s) - 1 : Front(s)[k] = s[k]
           /\ Len(s) \in 1 .. Len(s) /\ Last(s) = s[Len(s)] /\ Last(s) \in S
<1>1. Len(s) \in Nat \ {0} /\ \A k \in 1 .. Len(s) : s[k] \in S
  OBVIOUS
<1>2. \A k \in 1 .. Len(s) - 1 : s[k] \in S
  BY <1>1
<1>3. /\ SubSeq(s, 1, Len(s) - 1) \in Seq(S)
      /\ Len(SubSeq(s, 1, Len(s) - 1)) = Len(s) - 1
      /\ \A k \in 1 .. Len(s) - 1 : SubSeq(s, 1, Len(s) - 1)[k] = s[k]
  <2> DEFINE n == Len(s) - 1
             front == SubSeq(s, 1, n)
  <2>1. n \in Int /\ (1 <= n \/ n = 0) /\ n - 1 + 1 = n
    <3>1. \A l \in Nat \ {0} :
             l - 1 \in Int /\ (1 <= l - 1 \/ l - 1 = 0) /\ l - 1 - 1 + 1 = l - 1
      OBVIOUS
    <3> QED
      BY <1>1, <3>1
  <2> HIDE DEF n
  <2>2. /\ front \in Seq(S) /\ Len(front) = IF 1 <= n THEN n - 1 + 1 ELSE 0
        /\ \A i \in 1 .. n - 1 + 1 : front[i] = s[1 + i - 1]
    <3>1. \A i \in 1 .. n : s[i] \in S
      BY <1>2 DEF n
    <3> QED
      BY <2>1, <3>1, SubSeqProperties
  <2> HIDE DEF front
  <2>3. front \in Seq(S) /\ Len(front) = n /\ \A k \in 1 .. n : front[k] = s[k]
    BY <2>1, <2>2
  <2> QED
    BY <2>3 DEF n, front
<1> QED
  BY <1>1, <1>3 DEF Front, Last

LEMMA GrantKeepsType ==
    ASSUME grants \in [Indices -> Nat], NEW i \in Indices, Grant(i)
    PROVE  grants' \in [Indices -> Nat]
           /\ \A j \in Indices : grants'[j] = IF j = i THEN grants[i] + 1 ELSE grants[j]
  BY DEF Grant

-----------------------------------------------------------------------------
(* Every variable keeps its type: no index leaves the table, no value is   *)
(* other than a number.                                                    *)
LEMMA NextServicesType == ServicesTypeOK /\ [ServicesNext]_servicesVars => ServicesTypeOK'
<1> SUFFICES ASSUME ServicesTypeOK, [ServicesNext]_servicesVars PROVE ServicesTypeOK'
  OBVIOUS
<1> USE ServicesAssumption DEF ServicesTypeOK, Indices, Slots
<1>1. ASSUME NEW t \in GuestThreads, ContextStep(t) PROVE ServicesTypeOK'
  <2>1. CASE StartContext(t)
    BY <2>1 DEF StartContext, spinVars, tlsVars
  <2>2. CASE EndContext(t)
    <3>1. <<>> \in Seq(Nat) /\ [i \in Indices |-> 0] \in [Indices -> Nat]
      OBVIOUS
    <3> QED
      BY <2>2, <3>1 DEF EndContext, spinVars
  <2> QED
    BY <1>1, <2>1, <2>2 DEF ContextStep
<1>2. ASSUME NEW t \in GuestThreads, LockStep(t) PROVE ServicesTypeOK'
  BY <1>2 DEF LockStep, CallAcquire, KeAcquireSpinLockAtRaisedIrql, KfAcquireSpinLock,
       KeReleaseSpinLockFromRaisedIrql, KfReleaseSpinLock, tlsVars, Running
<1>3. ASSUME NEW t \in GuestThreads, KeTlsAlloc(t) PROVE ServicesTypeOK'
  <2>1. CASE freeIndices # <<>> /\ freeIndices' = Front(freeIndices)
             /\ Grant(Last(freeIndices)) /\ UNCHANGED nextIndex
    <3>1. Front(freeIndices) \in Seq(Indices) /\ Last(freeIndices) \in Indices
      BY <2>1, FrontAndLast DEF ServicesTypeOK
    <3>2. freeIndices' \in Seq(Indices)
      BY <2>1, <3>1
    <3>3. grants' \in [Indices -> Nat]
      BY <2>1, <3>1, GrantKeepsType DEF ServicesTypeOK
    <3> QED
      BY <1>3, <2>1, <3>2, <3>3 DEF KeTlsAlloc, spinVars
  <2>2. CASE nextIndex < MaxIndex /\ Grant(nextIndex) /\ nextIndex' = nextIndex + 1
             /\ UNCHANGED freeIndices
    <3>1. grants' \in [Indices -> Nat]
      BY <2>2, nextIndex \in Indices, GrantKeepsType DEF ServicesTypeOK, Indices
    <3>2. nextIndex' \in 0 .. MaxIndex
      BY <2>2
    <3> QED
      BY <1>3, <2>2, <3>1, <3>2 DEF KeTlsAlloc, spinVars
  <2> QED
    BY <1>3, <2>1, <2>2 DEF KeTlsAlloc
<1>4. ASSUME NEW t \in GuestThreads, NEW i \in Indices, KeTlsFree(t, i) PROVE ServicesTypeOK'
  <2>1. grants' \in [Indices -> Nat]
    <3>1. (IF grants[i] > 0 THEN grants[i] - 1 ELSE 0) \in Nat
      OBVIOUS
    <3>2. grants' = [grants EXCEPT ![i] = IF grants[i] > 0 THEN grants[i] - 1 ELSE 0]
      BY <1>4 DEF KeTlsFree
    <3> QED
      BY <3>1, <3>2
  <2>2. freeIndices' \in Seq(Indices)
    BY <1>4 DEF KeTlsFree
  <2>3. freedTwice' \in BOOLEAN
    BY <1>4 DEF KeTlsFree
  <2> QED
    BY <1>4, <2>1, <2>2, <2>3 DEF KeTlsFree, spinVars
<1>5. ASSUME NEW t \in GuestThreads, NEW i \in Slots, KeTlsGetValue(t, i) PROVE ServicesTypeOK'
  <2>1. Grown(tlsValues[t], i) \in Seq(Nat)
    BY GrownKeepsValues
  <2> QED
    BY <1>5, <2>1 DEF KeTlsGetValue, spinVars
<1>6. ASSUME NEW t \in GuestThreads, NEW i \in Slots, NEW value \in TlsData,
             KeTlsSetValue(t, i, value)
      PROVE ServicesTypeOK'
  <2> DEFINE grown == Grown(tlsValues[t], i)
  <2>1. grown \in Seq(Nat) /\ Len(grown) > i
    BY GrownKeepsValues
  <2> HIDE DEF grown
  <2>2. [grown EXCEPT ![i + 1] = value] \in Seq(Nat)
    BY <2>1
  <2>3. tlsValues' = [tlsValues EXCEPT ![t] = [grown EXCEPT ![i + 1] = value]]
    BY <1>6 DEF KeTlsSetValue, grown
  <2>4. stored' \in [GuestThreads -> [Indices -> Nat]]
    BY <1>6 DEF KeTlsSetValue
  <2> QED
    <3>1. tlsValues' \in [GuestThreads -> Seq(Nat)]
      BY <2>2, <2>3
    <3>2. UNCHANGED <<r13, spinLock, spinning, holder, freeIndices, nextIndex, grants, freedTwice>>
      BY <1>6 DEF KeTlsSetValue, spinVars
    <3> QED
      BY <2>4, <3>1, <3>2
<1>7. CASE UNCHANGED servicesVars
  BY <1>7 DEF servicesVars, spinVars, tlsVars
<1> QED
  BY <1>1, <1>2, <1>3, <1>4, <1>5, <1>6, <1>7 DEF ServicesNext, TlsStep

(* KeTlsAlloc, KeTlsFree and the vectors keep the types of their tables:   *)
(* the free list holds indices, and a thread's vector numbers.             *)
THEOREM TypeCorrect == ServicesSpec => []ServicesTypeOK
<1>1. ServicesInit => ServicesTypeOK
  BY ServicesAssumption DEF ServicesInit, ServicesTypeOK, Indices
<1> QED
  BY <1>1, NextServicesType, PTL DEF ServicesSpec

-----------------------------------------------------------------------------
LEMMA NextFreeListOK ==
    ServicesTypeOK /\ FreeListOK /\ [ServicesNext]_servicesVars => FreeListOK'
<1> SUFFICES ASSUME ServicesTypeOK, FreeListOK, [ServicesNext]_servicesVars,
                    ~freedTwice'
             PROVE  FreeListOK'
  BY DEF FreeListOK
<1>1. ASSUME UNCHANGED <<freeIndices, nextIndex, grants, freedTwice>> PROVE FreeListOK'
  BY <1>1 DEF FreeListOK, IndexHasOneOwner
<1>2. ASSUME NEW t \in GuestThreads, KeTlsAlloc(t) PROVE FreeListOK'
  <2>1. ~freedTwice
    BY <1>2 DEF KeTlsAlloc
  <2>2. CASE freeIndices # <<>> /\ freeIndices' = Front(freeIndices)
             /\ Grant(Last(freeIndices)) /\ UNCHANGED nextIndex
    <3> DEFINE last == freeIndices[Len(freeIndices)]
    <3>1. /\ Len(freeIndices') = Len(freeIndices) - 1
          /\ \A k \in 1 .. Len(freeIndices) - 1 : freeIndices'[k] = freeIndices[k]
          /\ Len(freeIndices) \in 1 .. Len(freeIndices) /\ last \in Indices
          /\ last = Last(freeIndices)
      <4>1. freeIndices \in Seq(Indices) /\ freeIndices # <<>> /\ freeIndices' = Front(freeIndices)
        BY <2>2 DEF ServicesTypeOK
      <4>2. /\ Len(Front(freeIndices)) = Len(freeIndices) - 1
            /\ \A k \in 1 .. Len(freeIndices) - 1 : Front(freeIndices)[k] = freeIndices[k]
            /\ Len(freeIndices) \in 1 .. Len(freeIndices)
            /\ Last(freeIndices) = freeIndices[Len(freeIndices)] /\ Last(freeIndices) \in Indices
        BY <4>1, FrontAndLast, ZenonT(20)
      <4> QED
        BY <4>1, <4>2, Zenon
    <3>2. \A j \in Indices : grants'[j] = IF j = last THEN grants[last] + 1 ELSE grants[j]
      BY <2>2, <3>1, GrantKeepsType DEF ServicesTypeOK
    <3>3. grants[last] = 0 /\ last < nextIndex
      BY <2>1, <3>1 DEF FreeListOK
    <3>4. \A k \in 1 .. Len(freeIndices) - 1 :
             freeIndices[k] \in Indices /\ freeIndices[k] # last
      <4>1. \A k \in 1 .. Len(freeIndices) : freeIndices[k] \in Indices
        BY DEF ServicesTypeOK
      <4>2. \A k \in 1 .. Len(freeIndices) - 1 :
               k \in 1 .. Len(freeIndices) /\ k # Len(freeIndices)
        BY <3>1
      <4> QED
        BY <2>1, <3>1, <4>1, <4>2 DEF FreeListOK
    <3> HIDE DEF last
    <3>5. \A j \in Indices : grants'[j] <= 1 /\ (j >= nextIndex' => grants'[j] = 0)
      BY <2>1, <2>2, <3>2, <3>3 DEF FreeListOK, IndexHasOneOwner, ServicesTypeOK, Indices
    <3>6. \A k \in 1 .. Len(freeIndices') :
             freeIndices'[k] < nextIndex' /\ grants'[freeIndices'[k]] = 0
      BY <2>1, <2>2, <3>1, <3>2, <3>4 DEF FreeListOK
    <3>7. \A k, l \in 1 .. Len(freeIndices') : freeIndices'[k] = freeIndices'[l] => k = l
      BY <2>1, <3>1 DEF FreeListOK
    <3> QED
      BY <3>5, <3>6, <3>7 DEF FreeListOK, IndexHasOneOwner
  <2>3. CASE freeIndices = <<>> /\ nextIndex < MaxIndex /\ Grant(nextIndex)
             /\ nextIndex' = nextIndex + 1 /\ UNCHANGED freeIndices
    <3>1. nextIndex \in Indices /\ nextIndex \in Nat
      BY DEF ServicesTypeOK, Indices
    <3>2. \A j \in Indices :
             grants'[j] = IF j = nextIndex THEN grants[nextIndex] + 1 ELSE grants[j]
      BY <2>3, <3>1, GrantKeepsType DEF ServicesTypeOK
    <3>3. \A j \in Indices : grants'[j] <= 1 /\ (j >= nextIndex' => grants'[j] = 0)
      BY <2>1, <2>3, <3>1, <3>2 DEF FreeListOK, IndexHasOneOwner, ServicesTypeOK, Indices
    <3>4. Len(freeIndices') = 0
      BY <2>3
    <3> QED
      BY <3>3, <3>4 DEF FreeListOK, IndexHasOneOwner
  <2> QED
    BY <1>2, <2>2, <2>3 DEF KeTlsAlloc
<1>3. ASSUME NEW t \in GuestThreads, NEW i \in Indices, KeTlsFree(t, i) PROVE FreeListOK'
  <2>1. ~freedTwice /\ grants[i] # 0 /\ UNCHANGED nextIndex
    BY <1>3 DEF KeTlsFree
  <2>2. grants[i] = 1 /\ i < nextIndex
    <3>1. grants[i] \in Nat /\ grants[i] <= 1
      BY <2>1 DEF FreeListOK, IndexHasOneOwner, ServicesTypeOK
    <3>2. i \in Nat /\ nextIndex \in Nat /\ ~(i >= nextIndex)
      BY <2>1, ServicesAssumption DEF FreeListOK, ServicesTypeOK, Indices
    <3> QED
      BY <2>1, <3>1, <3>2
  <2>3. \A j \in Indices : grants'[j] = IF j = i THEN 0 ELSE grants[j]
    BY <1>3, <2>2 DEF KeTlsFree, ServicesTypeOK
  <2>4. \A k \in 1 .. Len(freeIndices) : freeIndices[k] # i /\ freeIndices[k] \in Indices
    BY <2>1 DEF FreeListOK, ServicesTypeOK
  <2>5. /\ Len(freeIndices') = Len(freeIndices) + 1
        /\ freeIndices'[Len(freeIndices) + 1] = i
        /\ \A k \in 1 .. Len(freeIndices) : freeIndices'[k] = freeIndices[k]
        /\ Len(freeIndices) \in Nat
    BY <1>3 DEF KeTlsFree, ServicesTypeOK
  <2>6. \A k \in 1 .. Len(freeIndices') :
           freeIndices'[k] < nextIndex' /\ grants'[freeIndices'[k]] = 0
    BY <2>1, <2>2, <2>3, <2>4, <2>5 DEF FreeListOK
  <2>7. \A k, l \in 1 .. Len(freeIndices') : freeIndices'[k] = freeIndices'[l] => k = l
    BY <2>1, <2>4, <2>5 DEF FreeListOK
  <2>8. \A j \in Indices : grants'[j] <= 1 /\ (j >= nextIndex' => grants'[j] = 0)
    BY <2>1, <2>3 DEF FreeListOK, IndexHasOneOwner
  <2> QED
    BY <2>6, <2>7, <2>8 DEF FreeListOK, IndexHasOneOwner
<1> QED
  BY <1>1, <1>2, <1>3 DEF ServicesNext, ContextStep, LockStep, TlsStep, StartContext,
       EndContext, CallAcquire, KeAcquireSpinLockAtRaisedIrql, KfAcquireSpinLock,
       KeReleaseSpinLockFromRaisedIrql, KfReleaseSpinLock, KeTlsGetValue, KeTlsSetValue,
       servicesVars, tlsVars

(* However KeTlsAlloc and KeTlsFree of all threads follow one another, an  *)
(* index is in the hands of one owner as long as the guest frees only what *)
(* it was given; the code itself does not look.                            *)
THEOREM IndicesHaveOneOwner == ServicesSpec => []IndexHasOneOwner
<1>1. ServicesInit => FreeListOK
  BY ServicesAssumption DEF ServicesInit, FreeListOK, IndexHasOneOwner, Indices
<1>2. FreeListOK => IndexHasOneOwner
  BY DEF FreeListOK, IndexHasOneOwner
<1> QED
  BY <1>1, <1>2, NextFreeListOK, TypeCorrect, PTL DEF ServicesSpec

-----------------------------------------------------------------------------
LEMMA NextLocksOK == ServicesTypeOK /\ LocksOK /\ [ServicesNext]_servicesVars => LocksOK'
<1> SUFFICES ASSUME ServicesTypeOK, LocksOK, [ServicesNext]_servicesVars PROVE LocksOK'
  OBVIOUS
<1> USE ServicesAssumption DEF ServicesTypeOK, LocksOK, LockNamesItsHolder, Running
<1>1. ASSUME UNCHANGED <<r13, spinVars>> PROVE LocksOK'
  BY <1>1 DEF spinVars
<1>2. ASSUME NEW t \in GuestThreads, StartContext(t) PROVE LocksOK'
  <2>1. PICK b \in Blocks : b \notin {r13[u] : u \in GuestThreads}
                            /\ r13' = [r13 EXCEPT ![t] = b]
    BY <1>2 DEF StartContext
  <2>2. r13[t] = NoBlock /\ UNCHANGED <<spinLock, spinning, holder>>
    BY <1>2 DEF StartContext, spinVars
  <2>3. \A u \in GuestThreads : r13[u] # b /\ r13'[u] = IF u = t THEN b ELSE r13[u]
    BY <2>1
  <2>4. Running' = Running \cup {t} /\ b # NoBlock
    BY <2>1, <2>2, <2>3
  <2>5. LockNamesItsHolder'
    <3>1. CASE spinLock # NoBlock
      <4>1. PICK u \in Running : holder = {u}
                                 /\ {v \in GuestThreads : r13[v] = spinLock} = {u}
        BY <3>1
      <4>2. spinLock # b /\ u # t
        BY <2>2, <2>3, <4>1
      <4>3. {v \in GuestThreads : r13'[v] = spinLock'} = {u}
        BY <2>2, <2>3, <4>1, <4>2
      <4> QED
        BY <2>2, <2>4, <3>1, <4>1, <4>3
    <3> QED
      BY <2>2, <3>1
  <2> QED
    BY <2>2, <2>3, <2>4, <2>5
<1>3. ASSUME NEW t \in GuestThreads, EndContext(t) PROVE LocksOK'
  <2>1. t \notin holder /\ t \notin spinning /\ t \in Running
        /\ UNCHANGED <<spinLock, spinning, holder>>
    BY <1>3 DEF EndContext, spinVars
  <2>2. \A u \in GuestThreads : r13'[u] = IF u = t THEN NoBlock ELSE r13[u]
    BY <1>3 DEF EndContext
  <2>3. Running' = Running \ {t}
    BY <2>2
  <2>4. LockNamesItsHolder'
    <3>1. CASE spinLock # NoBlock
      <4>1. PICK u \in Running : holder = {u}
                                 /\ {v \in GuestThreads : r13[v] = spinLock} = {u}
        BY <3>1
      <4>2. u # t /\ {v \in GuestThreads : r13'[v] = spinLock'} = {u}
        BY <2>1, <2>2, <3>1, <4>1
      <4> QED
        BY <2>1, <2>3, <3>1, <4>1, <4>2
    <3> QED
      BY <2>1, <3>1
  <2> QED
    BY <2>1, <2>2, <2>3, <2>4
<1>4. ASSUME NEW t \in GuestThreads, CallAcquire(t) PROVE LocksOK'
  <2>1. UNCHANGED <<r13, spinLock, holder>> /\ spinning' = spinning \cup {t}
        /\ t \in Running \ holder
    BY <1>4 DEF CallAcquire
  <2>2. LockNamesItsHolder' <=> LockNamesItsHolder
    BY <2>1
  <2> QED
    BY <2>1, <2>2, ZenonT(20)
<1>5. ASSUME NEW t \in GuestThreads, KeAcquireSpinLockAtRaisedIrql(t) PROVE LocksOK'
  <2>1. holder = {} /\ t \in Running /\ UNCHANGED r13
    BY <1>5 DEF KeAcquireSpinLockAtRaisedIrql
  <2>2. holder' = {t} /\ spinLock' = r13[t] /\ spinning' = spinning \ {t}
    BY <1>5, <2>1 DEF KeAcquireSpinLockAtRaisedIrql
  <2>3. {u \in GuestThreads : r13[u] = spinLock'} = {t}
    BY <2>1, <2>2
  <2> QED
    BY <2>1, <2>2, <2>3, ZenonT(20)
<1>6. ASSUME NEW t \in GuestThreads, KeReleaseSpinLockFromRaisedIrql(t) PROVE LocksOK'
  BY <1>6 DEF KeReleaseSpinLockFromRaisedIrql
<1> QED
  BY <1>1, <1>2, <1>3, <1>4, <1>5, <1>6 DEF ServicesNext, ContextStep, LockStep, TlsStep,
       KfAcquireSpinLock, KfReleaseSpinLock, KeTlsAlloc, KeTlsFree, KeTlsGetValue,
       KeTlsSetValue, servicesVars

(* KeAcquireSpinLockAtRaisedIrql excludes: the word of a taken lock is the *)
(* context address of the one thread that returned with it, and of no      *)
(* other thread that runs.                                                 *)
THEOREM SpinLocksExclude == ServicesSpec => []LockNamesItsHolder
<1>1. ServicesInit => LocksOK
  BY DEF ServicesInit, LocksOK, LockNamesItsHolder, Running
<1>2. LocksOK => LockNamesItsHolder
  BY DEF LocksOK
<1> QED
  BY <1>1, <1>2, NextLocksOK, TypeCorrect, PTL DEF ServicesSpec

-----------------------------------------------------------------------------
LEMMA NextValues ==
    ServicesTypeOK /\ ValuesAreTheThreads /\ [ServicesNext]_servicesVars => ValuesAreTheThreads'
<1> SUFFICES ASSUME ServicesTypeOK, ValuesAreTheThreads, [ServicesNext]_servicesVars
             PROVE  ValuesAreTheThreads'
  OBVIOUS
<1>1. ASSUME UNCHANGED <<tlsValues, stored>> PROVE ValuesAreTheThreads'
  BY <1>1 DEF ValuesAreTheThreads
<1>2. ASSUME NEW t \in GuestThreads, EndContext(t) PROVE ValuesAreTheThreads'
  BY <1>2 DEF EndContext, ValuesAreTheThreads, ServicesTypeOK, Indices
<1>3. ASSUME NEW t \in GuestThreads, NEW i \in Slots,
             KeTlsGetValue(t, i) \/ \E value \in TlsData : KeTlsSetValue(t, i, value)
      PROVE ValuesAreTheThreads'
  <2> DEFINE values == tlsValues[t]
             grown == Grown(tlsValues[t], i)
  <2>0. i \in Nat /\ values \in Seq(Nat)
    BY ServicesAssumption DEF ServicesTypeOK, Slots
  <2>1. /\ grown \in Seq(Nat) /\ Len(values) \in Nat /\ Len(grown) \in Nat
        /\ Len(grown) > i /\ Len(grown) >= Len(values)
        /\ \A n \in 1 .. Len(grown) :
             grown[n] = IF n <= Len(values) THEN values[n] ELSE 0
    BY <2>0, GrownKeepsValues, SMTT(20)
  <2>2. \A u \in GuestThreads \ {t} :
           tlsValues'[u] = tlsValues[u] /\ stored'[u] = stored[u]
    BY <1>3 DEF KeTlsGetValue, KeTlsSetValue, ServicesTypeOK
  <2>3. \A j \in Indices :
           (IF j < Len(values) THEN values[j + 1] ELSE 0) = stored[t][j]
    BY DEF ValuesAreTheThreads
  <2>4. CASE KeTlsGetValue(t, i)
    <3>1. tlsValues'[t] = grown /\ stored'[t] = stored[t]
      BY <2>4 DEF KeTlsGetValue, ServicesTypeOK
    <3> HIDE DEF grown, values
    <3>2. \A j \in Indices :
             (IF j < Len(grown) THEN grown[j + 1] ELSE 0) = stored[t][j]
      <4> SUFFICES ASSUME NEW j \in Indices
                   PROVE  (IF j < Len(grown) THEN grown[j + 1] ELSE 0) = stored[t][j]
        OBVIOUS
      <4>1. stored[t][j] = IF j < Len(values) THEN values[j + 1] ELSE 0
        BY <2>3, Zenon
      <4>2. CASE j < Len(grown)
        <5>1. j + 1 \in 1 .. Len(grown) /\ (j + 1 <= Len(values) <=> j < Len(values))
          BY <2>1, <4>2 DEF Indices
        <5>2. grown[j + 1] = IF j < Len(values) THEN values[j + 1] ELSE 0
          BY <2>1, <5>1, Zenon
        <5> QED
          BY <4>1, <4>2, <5>2, Zenon
      <4>3. CASE ~(j < Len(grown))
        <5>1. ~(j < Len(values))
          BY <2>1, <4>3 DEF Indices
        <5> QED
          BY <4>1, <4>3, <5>1, Zenon
      <4> QED
        BY <4>2, <4>3
    <3> QED
      BY <2>2, <3>1, <3>2 DEF ValuesAreTheThreads
  <2>5. ASSUME NEW value \in TlsData, KeTlsSetValue(t, i, value)
        PROVE ValuesAreTheThreads'
    <3>1. /\ tlsValues'[t] = [grown EXCEPT ![i + 1] = value]
          /\ stored'[t] = [stored[t] EXCEPT ![i] = value]
      BY <2>5 DEF KeTlsSetValue, ServicesTypeOK
    <3> HIDE DEF grown, values
    <3>2. Len(tlsValues'[t]) = Len(grown)
          /\ \A n \in 1 .. Len(grown) :
               tlsValues'[t][n] = IF n = i + 1 THEN value ELSE grown[n]
      BY <2>0, <2>1, <3>1
    <3>3. \A j \in Indices : stored'[t][j] = IF j = i THEN value ELSE stored[t][j]
      BY <3>1 DEF ServicesTypeOK
    <3>4. \A j \in Indices :
             (IF j < Len(tlsValues'[t]) THEN tlsValues'[t][j + 1] ELSE 0) = stored'[t][j]
      <4> SUFFICES ASSUME NEW j \in Indices
                   PROVE  (IF j < Len(tlsValues'[t]) THEN tlsValues'[t][j + 1] ELSE 0) = stored'[t][j]
        OBVIOUS
      <4>1. j \in Nat /\ j + 1 \in Nat
        BY DEF Indices
      <4>2. stored'[t][j] = IF j = i THEN value ELSE IF j < Len(values) THEN values[j + 1] ELSE 0
        BY <2>3, <3>3, Zenon
      <4>3. CASE j < Len(grown)
        <5>1. j + 1 \in 1 .. Len(grown) /\ (j + 1 <= Len(values) <=> j < Len(values))
              /\ (j + 1 = i + 1 <=> j = i)
          BY <2>0, <2>1, <4>1, <4>3
        <5>2. tlsValues'[t][j + 1] = IF j = i THEN value ELSE grown[j + 1]
          BY <3>2, <5>1, Zenon
        <5>3. grown[j + 1] = IF j < Len(values) THEN values[j + 1] ELSE 0
          BY <2>1, <5>1, Zenon
        <5> QED
          BY <3>2, <4>2, <4>3, <5>2, <5>3, Zenon
      <4>4. CASE ~(j < Len(grown))
        <5>1. j # i /\ ~(j < Len(values))
          BY <2>0, <2>1, <4>1, <4>4
        <5> QED
          BY <3>2, <4>2, <4>4, <5>1, Zenon
      <4> QED
        BY <4>3, <4>4
    <3> QED
      BY <2>2, <3>4 DEF ValuesAreTheThreads
  <2> QED
    BY <1>3, <2>4, <2>5
<1> QED
  BY <1>1, <1>2, <1>3 DEF ServicesNext, ContextStep, LockStep, TlsStep, StartContext,
       CallAcquire, KeAcquireSpinLockAtRaisedIrql, KfAcquireSpinLock,
       KeReleaseSpinLockFromRaisedIrql, KfReleaseSpinLock, KeTlsAlloc, KeTlsFree,
       servicesVars, tlsVars

(* KeTlsGetValue gives a thread what it stored last by the same index, or  *)
(* 0, whatever other threads store and however its vector has grown.       *)
THEOREM ValuesArePrivate == ServicesSpec => []ValuesAreTheThreads
<1>1. ServicesInit => ValuesAreTheThreads
  BY DEF ServicesInit, ValuesAreTheThreads
<1> QED
  BY <1>1, NextValues, TypeCorrect, PTL DEF ServicesSpec

-----------------------------------------------------------------------------
(* The audio driver.                                                       *)

(* Where a call that registers or reconfigures can be.                     *)
ClientPlaces ==
    {"idle", "param", "callback", "joinable", "exit", "join", "close", "open",
     "unpause", "clear", "spawn"}
(* Where the audio thread is inside its loop.                              *)
Looping == {"head", "callback", "queue", "sleep"}

DeviceType ==
    [open : BOOLEAN, channels : {0, 2, NumChannels}, playing : BOOLEAN, queued : Nat]

AudioTypeOK ==
    /\ surround \in BOOLEAN /\ downMix \in BOOLEAN /\ shouldExit \in BOOLEAN
    /\ device \in DeviceType
    /\ param \in 0 .. MaxCalls /\ callback \in 0 .. MaxCalls /\ calls \in 0 .. MaxCalls
    /\ thread \in {"none", "running", "joined"}
    /\ audio \in [at : {"none", "start", "finished"} \cup Looping,
                  channels : {0, 2, NumChannels}, frame : {0, 2, NumChannels}]
    /\ client \in [Clients -> ClientPlaces]
    /\ crashed \in BOOLEAN /\ misused \in BOOLEAN

(* The mixing is the device's, whoever opened it; no device holds nothing.  *)
DeviceInv ==
    IF device.open
    THEN device.channels = IF downMix THEN 2 ELSE NumChannels
    ELSE device.channels = 0 /\ device.queued = 0 /\ ~device.playing

(* What each client in an orderly call has done, and what the thread is.   *)
OrderInv ==
    ~misused =>
       /\ ~crashed
       /\ \A c, d \in Clients : client[c] # "idle" /\ client[d] # "idle" => c = d
       /\ calls = 0 => /\ \A c \in Clients : client[c] = "idle"
                       /\ thread = "none"
       /\ calls > 0 /\ (\A c \in Clients : client[c] = "idle") => thread = "running"
       /\ \A c \in Clients :
            /\ client[c] \in {"param", "callback"} => thread = "none" /\ calls = 1
            /\ client[c] = "callback" => param = 1
            /\ client[c] \in {"joinable", "exit", "join"} => thread = "running"
            /\ client[c] \in {"close", "open"} => thread = "joined"
            /\ client[c] \in {"unpause", "clear", "spawn"} =>
                  thread \in {"none", "joined"} /\ param = 1 /\ callback = 1
       /\ thread # "none" => param = 1 /\ callback = 1

(* The audio thread loops only while it is the running one, and counts and *)
(* mixes for the device that is open then.                                 *)
LoopInv ==
    ~misused =>
       /\ thread = "none" => audio.at = "none"
       /\ thread = "joined" => audio.at = "finished"
       /\ audio.at \in Looping => audio.channels = IF downMix THEN 2 ELSE NumChannels
       /\ audio.at = "queue" => audio.frame = IF downMix THEN 2 ELSE NumChannels
       /\ device.open => device.queued % device.channels = 0
       /\ device.queued <= (MaxLatency + 1) * device.channels
       /\ audio.at \in {"callback", "queue"} => device.queued <= MaxLatency * device.channels

AudioInv == AudioTypeOK /\ DeviceInv /\ OrderInv /\ LoopInv

(* Whatever SDL does, CreateAudioDevice ends with no device or with a      *)
(* fresh one of two or six channels, as it has noted.                      *)
LEMMA OpenDeviceFits ==
    ASSUME surround \in BOOLEAN, NEW result \in OpenDevice
    PROVE  /\ result.device \in DeviceType
           /\ ~result.device.playing /\ result.device.queued = 0
           /\ result.device.channels =
                IF ~result.device.open THEN 0 ELSE IF result.obtained = 2 THEN 2 ELSE NumChannels
<1>1. PICK first \in OpenResults(Desired, surround) :
        result \in IF first.obtained \in {2, NumChannels} THEN {first}
                   ELSE OpenResults(Desired, FALSE)
  BY DEF OpenDevice
<1>2. \E n \in {2, NumChannels} : \/ result = [device |-> NewDevice(n), obtained |-> n]
                                  \/ result.device = NoDevice
  <2>1. Desired \in {2, NumChannels}
    BY DEF Desired
  <2>2. CASE first.obtained \in {2, NumChannels}
    <3>1. result = first
      BY <1>1, <2>2
    <3> QED
      BY <2>1, <2>2, <3>1 DEF OpenResults
  <2>3. CASE first.obtained \notin {2, NumChannels}
    BY <1>1, <2>1, <2>3 DEF OpenResults
  <2> QED
    BY <2>2, <2>3
<1>3. CASE result.device = NoDevice
  BY <1>3 DEF NoDevice, DeviceType
<1>4. ASSUME NEW n \in {2, NumChannels}, result = [device |-> NewDevice(n), obtained |-> n]
      PROVE  /\ result.device = NewDevice(n) /\ result.obtained = n
             /\ n = 2 \/ n = NumChannels
  BY <1>4
<1>5. ASSUME NEW n \in {2, NumChannels} PROVE NewDevice(n) \in DeviceType
  BY DEF NewDevice, DeviceType, NumChannels
<1> QED
  BY <1>2, <1>3, <1>4, <1>5 DEF NumChannels, NewDevice

(* XAudioInitializeSystem leaves no thread, and a device or none.          *)
LEMMA InitAudioInv == AudioInit => AudioInv
<1> SUFFICES ASSUME AudioInit PROVE AudioInv
  OBVIOUS
<1> DEFINE Fresh == /\ device \in DeviceType /\ downMix \in BOOLEAN
                     /\ ~device.playing /\ device.queued = 0
                     /\ device.channels = IF ~device.open THEN 0
                                          ELSE IF downMix THEN 2 ELSE NumChannels
<1>1. Fresh
  <2>1. CASE device = NoDevice /\ downMix = FALSE
    BY <2>1 DEF NoDevice, DeviceType
  <2>2. ASSUME NEW result \in OpenDevice, device = result.device, downMix = (result.obtained = 2)
        PROVE Fresh
    BY <2>2, OpenDeviceFits DEF AudioInit
  <2> QED
    BY <2>1, <2>2 DEF AudioInit
<1>2. surround \in BOOLEAN /\ param = 0 /\ callback = 0 /\ shouldExit = FALSE /\ thread = "none"
      /\ audio = [at |-> "none", channels |-> 0, frame |-> 0]
      /\ client = [c \in Clients |-> "idle"] /\ calls = 0 /\ crashed = FALSE /\ misused = FALSE
  BY DEF AudioInit
<1>3. AudioTypeOK
  <2>1. client \in [Clients -> ClientPlaces]
    BY <1>2 DEF ClientPlaces
  <2>2. audio \in [at : {"none", "start", "finished"} \cup Looping,
                   channels : {0, 2, NumChannels}, frame : {0, 2, NumChannels}]
    BY <1>2
  <2>3. {param, callback, calls} \subseteq 0 .. MaxCalls
    BY <1>2, AudioAssumption
  <2> QED
    BY <1>1, <1>2, <2>1, <2>2, <2>3, Zenon DEF AudioTypeOK
<1>4. DeviceInv
  BY <1>1 DEF DeviceInv, NumChannels
<1>5. OrderInv
  BY <1>2 DEF OrderInv
<1>6. 0 <= (MaxLatency + 1) * device.channels
  BY <1>1, AudioAssumption DEF DeviceType, NumChannels
<1>7. LoopInv
  <2>1. device.open => device.queued % device.channels = 0
    BY <1>1 DEF NumChannels
  <2> QED
    BY <1>1, <1>2, <1>6, <2>1 DEF LoopInv, Looping
<1> QED
  BY <1>3, <1>4, <1>5, <1>7 DEF AudioInv

(* Every step keeps the types of the driver.                               *)
LEMMA NextAudioType == AudioInv /\ [AudioNext]_audioVars => AudioTypeOK'
<1> SUFFICES ASSUME AudioTypeOK, DeviceInv, [AudioNext]_audioVars PROVE AudioTypeOK'
  BY DEF AudioInv
<1> USE DEF AudioTypeOK
<1>1. ASSUME NEW c \in Clients, NEW place \in ClientPlaces, NEW orderly \in BOOLEAN, Begin(c, place, orderly)
      PROVE  AudioTypeOK'
  BY <1>1, AudioAssumption DEF Begin, At, driverVars
<1>2. ASSUME NEW c \in Clients, SetParam(c) PROVE AudioTypeOK'
  BY <1>2 DEF SetParam, At, ClientPlaces
<1>3. ASSUME NEW c \in Clients, SetCallback(c) PROVE AudioTypeOK'
  BY <1>3 DEF SetCallback, At, ClientPlaces
<1>4. ASSUME NEW c \in Clients, TestJoinable(c) PROVE AudioTypeOK'
  BY <1>4 DEF TestJoinable, At, ClientPlaces, driverVars
<1>5. ASSUME NEW c \in Clients, SetExit(c) PROVE AudioTypeOK'
  BY <1>5 DEF SetExit, At, ClientPlaces
<1>6. ASSUME NEW c \in Clients, Join(c) PROVE AudioTypeOK'
  BY <1>6, ZenonT(20) DEF Join, At, ClientPlaces
<1>7. ASSUME NEW c \in Clients, CloseDevice(c) PROVE AudioTypeOK'
  BY <1>7 DEF CloseDevice, At, ClientPlaces, NoDevice, DeviceType
<1>8. ASSUME NEW c \in Clients, CreateAudioDevice(c) PROVE AudioTypeOK'
  BY <1>8, OpenDeviceFits DEF CreateAudioDevice, At, ClientPlaces
<1>9. ASSUME NEW c \in Clients, Unpause(c) PROVE AudioTypeOK'
  BY <1>9 DEF Unpause, At, ClientPlaces, DeviceType
<1>10. ASSUME NEW c \in Clients, ClearExit(c) PROVE AudioTypeOK'
  BY <1>10, ZenonT(20) DEF ClearExit, At, ClientPlaces
<1>11. ASSUME NEW c \in Clients, CreateAudioThread(c) PROVE AudioTypeOK'
  BY <1>11 DEF CreateAudioThread, At, ClientPlaces
<1>12. CASE ReadChannels
  BY <1>12 DEF ReadChannels, AudioAt, Looping, driverVars
<1>13. CASE TestLatency
  BY <1>13 DEF TestLatency, AudioAt, Looping, driverVars
<1>14. CASE CallClient
  BY <1>14 DEF CallClient, AudioAt, Looping, driverVars
<1>15. CASE XAudioSubmitFrame
  BY <1>15 DEF XAudioSubmitFrame, AudioAt, Looping, DeviceType, NumChannels
<1>16. CASE EndSleep
  BY <1>16 DEF EndSleep, AudioAt, Looping, driverVars
<1>17. CASE Play
  BY <1>17 DEF Play, DeviceType, NumChannels
<1>18. CASE UNCHANGED audioVars
  BY <1>18 DEF audioVars, driverVars
<1>19. ASSUME NEW c \in Clients, ClientStep(c) PROVE AudioTypeOK'
  BY <1>2, <1>3, <1>4, <1>5, <1>6, <1>7, <1>8, <1>9, <1>10, <1>11, <1>19, Zenon DEF ClientStep
<1>20. CASE AudioThread
  BY <1>12, <1>13, <1>14, <1>15, <1>16, <1>20, Zenon DEF AudioThread
<1>21. ASSUME NEW c \in Clients, XAudioRegisterClient(c) PROVE AudioTypeOK'
  <2>1. "param" \in ClientPlaces /\ (calls = 0) \in BOOLEAN
    BY DEF ClientPlaces
  <2> QED
    BY <1>1, <1>21, <2>1 DEF XAudioRegisterClient
<1>22. ASSUME NEW c \in Clients, XAudioConfigValueChangedCallback(c) PROVE AudioTypeOK'
  <2>1. "joinable" \in ClientPlaces /\ (calls > 0) \in BOOLEAN
    BY DEF ClientPlaces
  <2> QED
    BY <1>1, <1>22, <2>1 DEF XAudioConfigValueChangedCallback
<1> QED
  BY <1>21, <1>22, <1>17, <1>18, <1>19, <1>20, Zenon DEF AudioNext

(* Only the calls that close and open a device change its channels, and    *)
(* the mixing that is noted changes with them.                             *)
LEMMA NextDeviceInv == AudioInv /\ [AudioNext]_audioVars => DeviceInv'
<1> SUFFICES ASSUME AudioTypeOK, DeviceInv, [AudioNext]_audioVars PROVE DeviceInv'
  BY DEF AudioInv
<1> DEFINE Kept == UNCHANGED <<device, downMix>>
<1>0. ASSUME Kept PROVE DeviceInv'
  BY <1>0 DEF DeviceInv
<1>1. ASSUME NEW c \in Clients,
             \/ XAudioRegisterClient(c) \/ XAudioConfigValueChangedCallback(c)
             \/ SetParam(c) \/ SetCallback(c) \/ TestJoinable(c) \/ SetExit(c) \/ Join(c)
             \/ ClearExit(c) \/ CreateAudioThread(c)
      PROVE  Kept
  BY <1>1 DEF XAudioRegisterClient, XAudioConfigValueChangedCallback, Begin, SetParam, SetCallback,
     TestJoinable, SetExit, Join, ClearExit, CreateAudioThread, driverVars
<1>2. CASE ReadChannels \/ TestLatency \/ CallClient \/ EndSleep
  BY <1>0, <1>2 DEF ReadChannels, TestLatency, CallClient, EndSleep, driverVars
<1>3. ASSUME NEW c \in Clients, CloseDevice(c) PROVE DeviceInv'
  BY <1>3 DEF CloseDevice, DeviceInv, NoDevice
<1>4. ASSUME NEW c \in Clients, CreateAudioDevice(c) PROVE DeviceInv'
  <2>1. PICK result \in OpenDevice : device' = result.device /\ downMix' = (result.obtained = 2)
    BY <1>4 DEF CreateAudioDevice
  <2>2. /\ ~device'.playing /\ device'.queued = 0
        /\ device'.channels = IF ~device'.open THEN 0 ELSE IF downMix' THEN 2 ELSE NumChannels
    BY <2>1, OpenDeviceFits DEF AudioTypeOK
  <2> QED
    BY <2>2 DEF DeviceInv, NumChannels
<1>5. ASSUME NEW c \in Clients, Unpause(c) PROVE DeviceInv'
  BY <1>5 DEF Unpause, DeviceInv, AudioTypeOK, DeviceType
<1>6. CASE XAudioSubmitFrame
  BY <1>6 DEF XAudioSubmitFrame, DeviceInv, AudioTypeOK, DeviceType, NumChannels
<1>7. CASE Play
  BY <1>7 DEF Play, DeviceInv, AudioTypeOK, DeviceType, NumChannels
<1>8. CASE UNCHANGED audioVars
  BY <1>0, <1>8 DEF audioVars, driverVars
<1>9. ASSUME NEW c \in Clients, ClientStep(c) PROVE DeviceInv'
  BY <1>0, <1>1, <1>3, <1>4, <1>5, <1>9 DEF ClientStep
<1> QED
  BY <1>0, <1>1, <1>2, <1>6, <1>7, <1>8, <1>9 DEF AudioNext, AudioThread

(* The steps of one orderly call follow one another, and the thread is     *)
(* started, stopped and joined in turn.                                    *)
LEMMA NextOrderInv == AudioInv /\ [AudioNext]_audioVars => OrderInv'
<1> SUFFICES ASSUME AudioTypeOK, OrderInv, LoopInv, [AudioNext]_audioVars PROVE OrderInv'
  BY DEF AudioInv
<1> DEFINE Kept == UNCHANGED <<param, callback, thread, client, calls, crashed, misused>>
           Types == /\ calls \in Nat /\ client \in [Clients -> ClientPlaces]
                    /\ thread \in {"none", "running", "joined"}
<1>0. Types
  BY AudioAssumption DEF AudioTypeOK
<1>1. ASSUME Kept PROVE OrderInv'
  BY <1>1 DEF OrderInv
<1>2. ASSUME NEW c \in Clients, XAudioRegisterClient(c) PROVE OrderInv'
  <2> SUFFICES ASSUME ~misused' PROVE OrderInv'
    BY DEF OrderInv
  <2>1. /\ ~misused /\ (calls = 0) /\ (\A d \in Clients : client[d] = "idle")
        /\ calls' = calls + 1 /\ UNCHANGED <<param, callback, thread, crashed>>
    BY <1>2 DEF XAudioRegisterClient, Begin, driverVars
  <2>2. client' = [client EXCEPT ![c] = "param"]
    BY <1>2 DEF XAudioRegisterClient, Begin, At
  <2> QED
    BY <1>0, <2>1, <2>2 DEF OrderInv
<1>3. ASSUME NEW c \in Clients, XAudioConfigValueChangedCallback(c) PROVE OrderInv'
  <2> SUFFICES ASSUME ~misused' PROVE OrderInv'
    BY DEF OrderInv
  <2>1. /\ ~misused /\ (calls > 0) /\ (\A d \in Clients : client[d] = "idle")
        /\ calls' = calls + 1 /\ UNCHANGED <<param, callback, thread, crashed>>
    BY <1>3 DEF XAudioConfigValueChangedCallback, Begin, driverVars
  <2>2. client' = [client EXCEPT ![c] = "joinable"]
    BY <1>3 DEF XAudioConfigValueChangedCallback, Begin, At
  <2> QED
    BY <1>0, <2>1, <2>2 DEF OrderInv
<1>4. ASSUME NEW c \in Clients, SetParam(c) PROVE OrderInv'
  BY <1>0, <1>4 DEF SetParam, At, OrderInv
<1>5. ASSUME NEW c \in Clients, SetCallback(c) PROVE OrderInv'
  BY <1>0, <1>5 DEF SetCallback, At, OrderInv
<1>6. ASSUME NEW c \in Clients, TestJoinable(c) PROVE OrderInv'
  BY <1>0, <1>6 DEF TestJoinable, At, OrderInv, driverVars
<1>7. ASSUME NEW c \in Clients, SetExit(c) PROVE OrderInv'
  BY <1>0, <1>7 DEF SetExit, At, OrderInv
<1>8. ASSUME NEW c \in Clients, Join(c) PROVE OrderInv'
  BY <1>0, <1>8 DEF Join, At, OrderInv
<1>9. ASSUME NEW c \in Clients, CloseDevice(c) PROVE OrderInv'
  BY <1>0, <1>9 DEF CloseDevice, At, OrderInv
<1>10. ASSUME NEW c \in Clients, CreateAudioDevice(c) PROVE OrderInv'
  BY <1>0, <1>10 DEF CreateAudioDevice, At, OrderInv
<1>11. ASSUME NEW c \in Clients, Unpause(c) PROVE OrderInv'
  BY <1>0, <1>11 DEF Unpause, At, OrderInv
<1>12. ASSUME NEW c \in Clients, ClearExit(c) PROVE OrderInv'
  BY <1>0, <1>12 DEF ClearExit, At, OrderInv
<1>13. ASSUME NEW c \in Clients, CreateAudioThread(c) PROVE OrderInv'
  BY <1>0, <1>13 DEF CreateAudioThread, At, OrderInv
<1>14. CASE AudioThread
  BY <1>1, <1>14 DEF AudioThread, ReadChannels, TestLatency, CallClient, XAudioSubmitFrame, EndSleep,
     AudioAt, driverVars
<1>15. CASE Play
  BY <1>1, <1>15 DEF Play
<1>16. CASE UNCHANGED audioVars
  BY <1>1, <1>16 DEF audioVars, driverVars
<1>17. ASSUME NEW c \in Clients, ClientStep(c) PROVE OrderInv'
  BY <1>4, <1>5, <1>6, <1>7, <1>8, <1>9, <1>10, <1>11, <1>12, <1>13, <1>17, Zenon DEF ClientStep
<1> QED
  BY <1>2, <1>3, <1>14, <1>15, <1>16, <1>17, Zenon DEF AudioNext

(* The test of the latency bounds what is queued: a whole number of frames *)
(* is there, and the thread counts with the channels of the device.        *)
LEMMA LatencyInFrames ==
    ASSUME NEW queued \in Nat, NEW channels \in {2, NumChannels},
           queued % channels = 0, queued \div channels <= MaxLatency
    PROVE  queued <= MaxLatency * channels
<1>1. CASE channels = 2
  BY <1>1, AudioAssumption
<1>2. CASE channels = 6
  BY <1>2, AudioAssumption
<1> QED
  BY <1>1, <1>2 DEF NumChannels

(* The thread is outside its loop whenever the device or the mixing        *)
(* changes, and submits what it has tested.                                *)
LEMMA NextLoopInv == AudioInv /\ [AudioNext]_audioVars => LoopInv'
<1> SUFFICES ASSUME AudioTypeOK, DeviceInv, OrderInv, LoopInv, [AudioNext]_audioVars, ~misused'
             PROVE  LoopInv'
  BY DEF AudioInv, LoopInv
<1> DEFINE Kept == UNCHANGED <<device, downMix, thread, audio>>
           Device == /\ device.queued \in Nat
                     /\ device.channels = IF ~device.open THEN 0
                                          ELSE IF downMix THEN 2 ELSE NumChannels
                     /\ ~device.open => device.queued = 0
<1>0. Device /\ MaxLatency \in Nat
  BY AudioAssumption DEF AudioTypeOK, DeviceType, DeviceInv
<1>a. audio \in [at : {"none", "start", "finished"} \cup Looping,
                 channels : {0, 2, NumChannels}, frame : {0, 2, NumChannels}]
  BY DEF AudioTypeOK
<1>1. ~misused
  BY DEF AudioNext, XAudioRegisterClient, XAudioConfigValueChangedCallback, Begin, ClientStep,
     SetParam, SetCallback, TestJoinable, SetExit, Join, CloseDevice, CreateAudioDevice, Unpause,
     ClearExit, CreateAudioThread, AudioThread, ReadChannels, TestLatency, CallClient,
     XAudioSubmitFrame, EndSleep, AudioAt, Play, audioVars
<1>2. ASSUME Kept PROVE LoopInv'
  BY <1>1, <1>2 DEF LoopInv
<1>3. ASSUME NEW c \in Clients,
             \/ XAudioRegisterClient(c) \/ XAudioConfigValueChangedCallback(c)
             \/ SetParam(c) \/ SetCallback(c) \/ TestJoinable(c) \/ SetExit(c) \/ ClearExit(c)
      PROVE  Kept
  BY <1>3 DEF XAudioRegisterClient, XAudioConfigValueChangedCallback, Begin, SetParam, SetCallback,
     TestJoinable, SetExit, ClearExit, driverVars
<1>4. ASSUME NEW c \in Clients, Join(c) PROVE LoopInv'
  BY <1>1, <1>4 DEF Join, LoopInv, Looping
<1>5. ASSUME NEW c \in Clients, CloseDevice(c) PROVE LoopInv'
  <2>1. audio.at = "finished" /\ thread = "joined"
    BY <1>1, <1>5 DEF CloseDevice, At, OrderInv, LoopInv
  <2>2. device' = NoDevice /\ UNCHANGED <<audio, thread>>
    BY <1>5 DEF CloseDevice
  <2>3. device'.queued <= (MaxLatency + 1) * device'.channels
    BY <1>0, <2>2 DEF NoDevice
  <2> QED
    BY <2>1, <2>2, <2>3 DEF LoopInv, NoDevice, Looping
<1>6. ASSUME NEW c \in Clients, CreateAudioDevice(c) PROVE LoopInv'
  <2>1. audio.at = "finished" /\ thread = "joined"
    BY <1>1, <1>6 DEF CreateAudioDevice, At, OrderInv, LoopInv
  <2>2. PICK result \in OpenDevice : device' = result.device
    BY <1>6 DEF CreateAudioDevice
  <2>3. /\ device'.queued = 0
        /\ device'.channels \in {0, 2, NumChannels} /\ (device'.open => device'.channels # 0)
    BY <2>2, OpenDeviceFits DEF AudioTypeOK, NumChannels
  <2>4. /\ device'.queued <= (MaxLatency + 1) * device'.channels
        /\ device'.open => device'.queued % device'.channels = 0
    BY <1>0, <2>3 DEF NumChannels
  <2>5. UNCHANGED <<audio, thread>>
    BY <1>6 DEF CreateAudioDevice
  <2> QED
    BY <2>1, <2>4, <2>5 DEF LoopInv, Looping
<1>7. ASSUME NEW c \in Clients, Unpause(c) PROVE LoopInv'
  <2>1. /\ device'.open = device.open /\ device'.channels = device.channels
        /\ device'.queued = device.queued
    BY <1>7 DEF Unpause, AudioTypeOK, DeviceType
  <2>2. UNCHANGED <<audio, thread, downMix>>
    BY <1>7 DEF Unpause
  <2> QED
    BY <1>1, <2>1, <2>2 DEF LoopInv
<1>8. ASSUME NEW c \in Clients, CreateAudioThread(c) PROVE LoopInv'
  <2>1. thread # "running"
    BY <1>1, <1>8 DEF CreateAudioThread, At, OrderInv
  <2>2. thread' = "running" /\ audio' = [audio EXCEPT !.at = "start"] /\ UNCHANGED <<device, downMix>>
    BY <1>8, <2>1 DEF CreateAudioThread
  <2>3. audio'.at = "start"
    BY <1>a, <2>2
  <2> QED
    BY <1>1, <2>2, <2>3 DEF LoopInv, Looping
<1>9. CASE ReadChannels
  BY <1>1, <1>9, <1>a DEF ReadChannels, AudioAt, LoopInv, Looping, driverVars
<1>10. CASE TestLatency
  <2>1. /\ audio.at = "head" /\ UNCHANGED <<device, downMix, thread>>
        /\ audio'.channels = audio.channels
        /\ audio'.at \in {"finished", "callback", "sleep"}
        /\ audio'.at = "callback" => device.queued \div audio.channels <= MaxLatency
    BY <1>10, <1>a DEF TestLatency, AudioAt, driverVars
  <2>2. audio'.at = "callback" => device.queued <= MaxLatency * device.channels
    <3>1. CASE device.open
      BY <1>0, <1>1, <2>1, <3>1, LatencyInFrames DEF LoopInv, Looping
    <3>2. CASE ~device.open
      BY <1>0, <3>2
    <3> QED
      BY <3>1, <3>2
  <2> QED
    BY <1>1, <2>1, <2>2 DEF LoopInv, Looping
<1>11. CASE CallClient
  BY <1>1, <1>11, <1>a DEF CallClient, AudioAt, LoopInv, Looping, driverVars
<1>12. CASE XAudioSubmitFrame
  <2>1. /\ audio.at = "queue" /\ audio'.at = "sleep" /\ audio'.channels = audio.channels
        /\ UNCHANGED <<downMix, thread>>
    BY <1>12, <1>a DEF XAudioSubmitFrame, AudioAt
  <2>2. /\ device'.open = device.open /\ device'.channels = device.channels
        /\ device'.queued = IF device.open THEN device.queued + audio.frame ELSE device.queued
    BY <1>12 DEF XAudioSubmitFrame, AudioTypeOK, DeviceType
  <2>3. /\ device'.queued <= (MaxLatency + 1) * device.channels
        /\ device.open => device'.queued % device.channels = 0
    <3>1. CASE device.open
      <4>1. audio.frame = device.channels /\ device.queued <= MaxLatency * device.channels
            /\ device.queued % device.channels = 0
        BY <1>0, <1>1, <2>1, <3>1 DEF LoopInv
      <4>2. CASE device.channels = 2
        BY <1>0, <2>2, <3>1, <4>1, <4>2
      <4>3. CASE device.channels = 6
        BY <1>0, <2>2, <3>1, <4>1, <4>3
      <4> QED
        BY <1>0, <3>1, <4>2, <4>3 DEF NumChannels
    <3>2. CASE ~device.open
      BY <1>0, <2>2, <3>2
    <3> QED
      BY <3>1, <3>2
  <2> QED
    BY <1>1, <2>1, <2>2, <2>3 DEF LoopInv, Looping
<1>13. CASE EndSleep
  BY <1>1, <1>13, <1>a DEF EndSleep, AudioAt, LoopInv, Looping, driverVars
<1>14. CASE Play
  <2>1. /\ device'.open = device.open /\ device'.channels = device.channels
        /\ device'.queued = IF device.queued > device.channels THEN device.queued - device.channels
                            ELSE 0
    BY <1>14 DEF Play, AudioTypeOK, DeviceType
  <2>2. UNCHANGED <<audio, downMix, thread>>
    BY <1>14 DEF Play
  <2>3. \A bound \in Nat : device.queued <= bound => device'.queued <= bound
    BY <1>0, <2>1 DEF NumChannels
  <2>4. (MaxLatency + 1) * device.channels \in Nat /\ MaxLatency * device.channels \in Nat
    BY <1>0 DEF NumChannels
  <2>5. device.open => device'.queued % device.channels = 0
    <3> SUFFICES ASSUME device.open PROVE device'.queued % device.channels = 0
      OBVIOUS
    <3>1. device.queued % device.channels = 0
      BY <1>1 DEF LoopInv
    <3>2. CASE device.channels = 2
      BY <1>0, <2>1, <3>1, <3>2
    <3>3. CASE device.channels = 6
      BY <1>0, <2>1, <3>1, <3>3
    <3> QED
      BY <1>0, <3>2, <3>3 DEF NumChannels
  <2> QED
    BY <1>1, <2>1, <2>2, <2>3, <2>4, <2>5 DEF LoopInv
<1>15. CASE UNCHANGED audioVars
  BY <1>2, <1>15 DEF audioVars, driverVars
<1>16. ASSUME NEW c \in Clients, ClientStep(c) PROVE LoopInv'
  BY <1>2, <1>3, <1>4, <1>5, <1>6, <1>7, <1>8, <1>16, Zenon DEF ClientStep
<1>17. CASE AudioThread
  BY <1>9, <1>10, <1>11, <1>12, <1>13, <1>17, Zenon DEF AudioThread
<1> QED
  BY <1>2, <1>3, <1>14, <1>15, <1>16, <1>17, Zenon DEF AudioNext

(* The invariant of the driver.                                            *)
LEMMA SpecAudioInv == AudioSpec => []AudioInv
<1>1. AudioInv /\ [AudioNext]_audioVars => AudioInv'
  BY NextAudioType, NextDeviceInv, NextOrderInv, NextLoopInv DEF AudioInv
<1> QED
  BY InitAudioInv, <1>1, PTL DEF AudioSpec

(* A frame is queued on an open device with as many channels as the device *)
(* has: XAudioSubmitFrame never submits to a device that was closed, or    *)
(* opened with another mixing, since its loop began.                       *)
THEOREM FramesFit == AudioSpec => []FramesFitTheDevice
<1>1. AudioInv => FramesFitTheDevice
  <2> SUFFICES ASSUME AudioTypeOK, DeviceInv, OrderInv, LoopInv, ~misused
               PROVE  FramesFitTheDevice
    BY DEF AudioInv, FramesFitTheDevice
  <2>1. audio.at = "queue" => thread # "none"
    BY DEF LoopInv
  <2> QED
    BY <2>1 DEF DeviceInv, OrderInv, LoopInv, FramesFitTheDevice, Looping
<1> QED
  BY SpecAudioInv, <1>1, PTL

(* What is queued is at most one frame more than the latency allows: the   *)
(* test of the loop bounds what the guest can make the driver queue.       *)
THEOREM QueueIsBounded == AudioSpec => []LatencyIsBounded
<1>1. AudioInv => LatencyIsBounded
  BY DEF AudioInv, LoopInv, LatencyIsBounded
<1> QED
  BY SpecAudioInv, <1>1, PTL

-----------------------------------------------------------------------------
(* Notifications.                                                          *)

(* The parameters a loop has yet to raise: of a device selector, of any.   *)
Params == {<<1, 0>>, <<0>>}
InsertCall == [op : {"insert", "areas"}, listener : Listeners, mask : AreaMasks]
EraseCall == [op : {"erase"}, listener : Listeners]
GetCall == [op : {"get"}, listener : Listeners, filter : Filters]
EventCall == [op : {"event"}, serial : Nat \ {0}, left : SUBSET Listeners, params : Params]
AppendCall ==
    [op : {"append"}, serial : Nat \ {0}, listener : Listeners, left : SUBSET Listeners,
     params : Params]
CallType ==
    {Idle} \cup InsertCall \cup EraseCall \cup GetCall \cup EventCall \cup AppendCall
Event == [id : {EventId}, serial : Nat \ {0}]

(* The types of the listeners, the calls and the history.                  *)
NotifyTypeOK ==
    /\ live \subseteq Listeners
    /\ areas \in [Listeners -> {{}} \cup AreaMasks]
    /\ notifications \in [Listeners -> Seq(Event)]
    /\ call \in [Callers -> CallType]
    /\ raised \in Seq([caller : Callers, param : {0, 1}])
    /\ expected \in [Listeners -> SUBSET (Nat \ {0})]
    /\ received \in [Listeners -> Seq(Nat \ {0})]

(* What the guest has read from a listener and has yet to read.            *)
Serials(queue) == [i \in 1 .. Len(queue) |-> queue[i].serial]
Arrived(l) == received[l] \o Serials(notifications[l])

(* A loop that is in progress has yet to bring its event to a listener.    *)
Waits(t, l) ==
    /\ call[t].op \in {"event", "append"}
    /\ l \in call[t].left \/ (call[t].op = "append" /\ call[t].listener = l)

(* XamNotifyEnqueueEvent is in its loop.                                   *)
Loops(t) == call[t].op \in {"event", "append"}

(* What a call holds: its listener is live from the insertion to the       *)
(* erasure, no other call erases or makes it then, and no listener is      *)
(* erased while a loop is in progress.                                     *)
HoldsOK(t) ==
    /\ call[t].op \in {"areas", "erase", "get"} => call[t].listener \in live
    /\ call[t].op = "insert" => call[t].listener \notin live
    /\ call[t].op = "areas" => areas[call[t].listener] = {}
    /\ Loops(t) => call[t].left \subseteq live
    /\ call[t].op = "append" =>
         /\ call[t].listener \in live \ call[t].left
         /\ EventArea \in areas[call[t].listener]

(* What two calls cannot be doing at once.                                 *)
Apart(t, u) ==
    /\ ~(Loops(t) /\ call[u].op = "erase")
    /\ call[t].op \in {"insert", "areas"} /\ call[u].op \in {"areas", "insert", "erase", "get"}
         => call[t].listener # call[u].listener
    /\ call[t].op = "erase" /\ call[u].op \in {"erase", "get"}
         => call[t].listener # call[u].listener

CallsOK ==
    /\ \A t \in Callers : HoldsOK(t)
    /\ \A t, u \in Callers : t # u => Apart(t, u)

(* The serial of a loop is that of the last event its thread raised.       *)
SerialsOK ==
    \A t \in Callers : Loops(t) =>
       /\ call[t].serial \in 1 .. Len(raised)
       /\ raised[call[t].serial].caller = t
       /\ \A s \in 1 .. Len(raised) : raised[s].caller = t => s <= call[t].serial

(* What has arrived at a listener.                                         *)
ArrivedOK(l) ==
    /\ \A i \in 1 .. Len(Arrived(l)) : Arrived(l)[i] \in 1 .. Len(raised)
    /\ \A i, j \in 1 .. Len(Arrived(l)) : i # j => Arrived(l)[i] # Arrived(l)[j]
    /\ expected[l] \ OnTheWay(l) \subseteq Range(Arrived(l))
    /\ EventArea \notin areas[l] => Arrived(l) = <<>> /\ expected[l] = {}
    /\ \A i, j \in 1 .. Len(Arrived(l)) :
         i < j /\ raised[Arrived(l)[i]].caller = raised[Arrived(l)[j]].caller
           => Arrived(l)[i] < Arrived(l)[j]
    /\ \A t \in Callers :
         Waits(t, l) => \A i \in 1 .. Len(Arrived(l)) : Arrived(l)[i] # call[t].serial

(* A listener that is not live has nothing.                                *)
NewListener(l) ==
    areas[l] = {} /\ notifications[l] = <<>> /\ expected[l] = {} /\ received[l] = <<>>

NotifyBody ==
    /\ NotifyTypeOK /\ CallsOK /\ SerialsOK
    /\ \A l \in live : ArrivedOK(l)
    /\ \A l \in Listeners \ live : NewListener(l)

NotifyInv == ~raced => NotifyBody

-----------------------------------------------------------------------------
(* The kind of a call says what it remembers.                              *)
LEMMA CallFields ==
    ASSUME NEW r \in CallType
    PROVE  /\ r.op \in {"none", "insert", "areas", "erase", "get", "event", "append"}
           /\ r.op = "none" => r = Idle
           /\ r.op \in {"insert", "areas"} => r \in InsertCall
           /\ r.op = "erase" => r \in EraseCall
           /\ r.op = "get" => r \in GetCall
           /\ r.op = "event" => r \in EventCall
           /\ r.op = "append" => r \in AppendCall
<1>1. CASE r = Idle
  BY <1>1 DEF Idle
<1>2. CASE r \in InsertCall
  BY <1>2 DEF InsertCall
<1>3. CASE r \in EraseCall
  BY <1>3 DEF EraseCall
<1>4. CASE r \in GetCall
  BY <1>4 DEF GetCall
<1>5. CASE r \in EventCall
  BY <1>5 DEF EventCall
<1>6. CASE r \in AppendCall
  BY <1>6 DEF AppendCall
<1> QED
  BY <1>1, <1>2, <1>3, <1>4, <1>5, <1>6 DEF CallType

(* A call of one thread changes no other.                                  *)
LEMMA NewCall ==
    ASSUME call \in [Callers -> CallType], NEW t \in Callers, NEW r \in CallType, Become(t, r)
    PROVE  /\ call' \in [Callers -> CallType] /\ call'[t] = r
           /\ \A u \in Callers \ {t} : call'[u] = call[u]
  BY DEF Become

(* The serials of a queue, when it grows at its end and loses its head.    *)
LEMMA SerialsOf ==
    ASSUME NEW queue \in Seq(Event)
    PROVE  /\ Serials(queue) \in Seq(Nat \ {0}) /\ Len(Serials(queue)) = Len(queue)
           /\ \A i \in 1 .. Len(queue) : Serials(queue)[i] = queue[i].serial
<1>1. \A i \in 1 .. Len(queue) : queue[i] \in Event
  OBVIOUS
<1>2. \A i \in 1 .. Len(queue) : queue[i].serial \in Nat \ {0}
  BY <1>1 DEF Event
<1> QED
  BY <1>2 DEF Serials

(* An event appended to the queue has arrived after all that had.          *)
LEMMA SerialsOfAppend ==
    ASSUME NEW queue \in Seq(Event), NEW event \in Event, NEW taken \in Seq(Nat \ {0})
    PROVE  taken \o Serials(Append(queue, event)) = Append(taken \o Serials(queue), event.serial)
<1>1. event.serial \in Nat \ {0}
  BY DEF Event
<1>2. Append(queue, event) \in Seq(Event) /\ Len(Append(queue, event)) = Len(queue) + 1
  OBVIOUS
<1>3. /\ Serials(queue) \in Seq(Nat \ {0}) /\ Len(Serials(queue)) = Len(queue)
      /\ \A i \in 1 .. Len(queue) : Serials(queue)[i] = queue[i].serial
  BY SerialsOf
<1>4. /\ Serials(Append(queue, event)) \in Seq(Nat \ {0})
      /\ Len(Serials(Append(queue, event))) = Len(queue) + 1
      /\ \A i \in 1 .. Len(queue) + 1 :
           Serials(Append(queue, event))[i] = Append(queue, event)[i].serial
  BY <1>2, SerialsOf
<1>5. Serials(Append(queue, event)) = Append(Serials(queue), event.serial)
  <2> DEFINE long == Serials(Append(queue, event))
             short == Serials(queue)
  <2>1. /\ long \in Seq(Nat \ {0}) /\ short \in Seq(Nat \ {0}) /\ Len(long) = Len(short) + 1
        /\ \A i \in 1 .. Len(short) : long[i] = short[i]
        /\ long[Len(short) + 1] = event.serial
    <3>1. \A i \in 1 .. Len(queue) : Append(queue, event)[i] = queue[i] /\ i \in 1 .. Len(queue) + 1
      OBVIOUS
    <3>2. Append(queue, event)[Len(queue) + 1] = event /\ Len(queue) + 1 \in 1 .. Len(queue) + 1
      OBVIOUS
    <3> QED
      BY <1>3, <1>4, <3>1, <3>2
  <2> HIDE DEF long, short
  <2>2. Append(short, event.serial) \in Seq(Nat \ {0}) /\ Len(Append(short, event.serial)) = Len(long)
        /\ \A i \in 1 .. Len(long) : Append(short, event.serial)[i] = long[i]
    BY <1>1, <2>1
  <2>3. long = Append(short, event.serial)
    BY <2>1, <2>2, SeqEqual
  <2> QED
    BY <2>3 DEF long, short
<1>6. \A short \in Seq(Nat \ {0}) : taken \o Append(short, event.serial) = Append(taken \o short, event.serial)
  BY <1>1, SMTT(20)
<1> QED
  BY <1>3, <1>5, <1>6

(* A sequence, its first element and the others.                          *)
Splits(all, first, rest) ==
    /\ Len(all) > 0 /\ all[1] = first /\ Len(rest) = Len(all) - 1
    /\ \A i \in 1 .. Len(rest) : rest[i] = all[i + 1]

(* A first element moved from one sequence to the end of another.          *)
LEMMA SameJoin ==
    ASSUME NEW S, NEW taken \in Seq(S), NEW all \in Seq(S), NEW rest \in Seq(S),
           NEW first \in S, Splits(all, first, rest)
    PROVE  Append(taken, first) \o rest = taken \o all
<1> USE DEF Splits
<1> DEFINE more == Append(taken, first)
           s == more \o rest
           r == taken \o all
<1>1. /\ more \in Seq(S) /\ Len(more) = Len(taken) + 1 /\ more[Len(taken) + 1] = first
      /\ \A i \in 1 .. Len(taken) : more[i] = taken[i]
  OBVIOUS
<1>2. Len(taken) \in Nat /\ Len(rest) \in Nat /\ Len(all) \in Nat /\ Len(all) = Len(rest) + 1
  OBVIOUS
<1> HIDE DEF more
<1>3. /\ s \in Seq(S) /\ Len(s) = Len(taken) + 1 + Len(rest)
      /\ \A i \in 1 .. Len(taken) + 1 + Len(rest) :
           s[i] = IF i <= Len(taken) + 1 THEN more[i] ELSE rest[i - (Len(taken) + 1)]
  <2>1. /\ s \in Seq(S) /\ Len(s) = Len(more) + Len(rest)
        /\ \A i \in 1 .. Len(more) + Len(rest) :
             s[i] = IF i <= Len(more) THEN more[i] ELSE rest[i - Len(more)]
    BY <1>1, ConcatProperties
  <2> QED
    BY <1>1, <2>1
<1>4. /\ r \in Seq(S) /\ Len(r) = Len(taken) + Len(all)
      /\ \A i \in 1 .. Len(taken) + Len(all) :
           r[i] = IF i <= Len(taken) THEN taken[i] ELSE all[i - Len(taken)]
  BY ConcatProperties
<1> HIDE DEF s, r
<1>5. ASSUME NEW i \in 1 .. Len(s) PROVE s[i] = r[i]
  <2>0. i \in Nat /\ i >= 1 /\ i <= Len(taken) + 1 + Len(rest) /\ i \in 1 .. Len(taken) + Len(all)
    BY <1>2, <1>3
  <2>1. CASE i <= Len(taken)
    <3>1. i \in 1 .. Len(taken) /\ i \in 1 .. Len(taken) + 1 + Len(rest) /\ i <= Len(taken) + 1
      BY <1>2, <2>0, <2>1
    <3>2. s[i] = more[i] /\ r[i] = taken[i]
      BY <1>3, <1>4, <2>0, <2>1, <3>1
    <3> QED
      BY <1>1, <3>1, <3>2
  <2>2. CASE i = Len(taken) + 1
    <3>1. i - Len(taken) = 1 /\ ~(i <= Len(taken)) /\ i <= Len(taken) + 1
      BY <1>2, <2>2
    <3> QED
      BY <1>1, <1>3, <1>4, <2>0, <2>2, <3>1
  <2>3. CASE i > Len(taken) + 1
    <3>1. i - (Len(taken) + 1) \in 1 .. Len(rest) /\ (i - (Len(taken) + 1)) + 1 = i - Len(taken)
          /\ ~(i <= Len(taken)) /\ ~(i <= Len(taken) + 1)
      BY <1>2, <2>0, <2>3
    <3> QED
      BY <1>3, <1>4, <2>0, <3>1
  <2>4. i <= Len(taken) \/ i = Len(taken) + 1 \/ i > Len(taken) + 1
    BY <1>2, <2>0
  <2> QED
    BY <2>1, <2>2, <2>3, <2>4, Zenon
<1>6. Len(s) = Len(r)
  BY <1>2, <1>3, <1>4
<1>7. s = r
  BY <1>3, <1>4, <1>5, <1>6, SeqEqual
<1> QED
  BY <1>7 DEF s, r, more

(* An event that is read moves from the queue to what was read.            *)
LEMMA SerialsOfRest ==
    ASSUME NEW queue \in Seq(Event), queue # <<>>, NEW taken \in Seq(Nat \ {0})
    PROVE  /\ RemoveAt(queue, 1) \in Seq(Event)
           /\ Append(taken, queue[1].serial) \o Serials(RemoveAt(queue, 1)) = taken \o Serials(queue)
<1> DEFINE rest == RemoveAt(queue, 1)
<1>1. Len(queue) \in Nat \ {0} /\ 1 \in 1 .. Len(queue)
  BY EmptySeq
<1>2. rest \in Seq(Event) /\ Len(rest) = Len(queue) - 1
      /\ \A i \in 1 .. Len(queue) - 1 : rest[i] = queue[i + 1]
  <2>1. SubSeq(queue, 1, 0) = <<>>
    OBVIOUS
  <2>2. /\ SubSeq(queue, 2, Len(queue)) \in Seq(Event)
        /\ Len(SubSeq(queue, 2, Len(queue))) = Len(queue) - 1
        /\ \A i \in 1 .. Len(queue) - 1 : SubSeq(queue, 2, Len(queue))[i] = queue[i + 1]
    <3>1. \A i \in 2 .. Len(queue) : queue[i] \in Event
      BY <1>1, ElementOfSeq
    <3>2. /\ SubSeq(queue, 2, Len(queue)) \in Seq(Event)
          /\ Len(SubSeq(queue, 2, Len(queue))) = IF 2 <= Len(queue) THEN Len(queue) - 2 + 1 ELSE 0
          /\ \A i \in 1 .. Len(queue) - 2 + 1 : SubSeq(queue, 2, Len(queue))[i] = queue[2 + i - 1]
      BY <1>1, <3>1, SubSeqProperties
    <3>3. \A i \in 1 .. Len(queue) - 1 : i \in 1 .. Len(queue) - 2 + 1 /\ 2 + i - 1 = i + 1
      BY <1>1
    <3>4. \A i \in 1 .. Len(queue) - 1 : SubSeq(queue, 2, Len(queue))[i] = queue[i + 1]
      BY <3>2, <3>3
    <3>5. (IF 2 <= Len(queue) THEN Len(queue) - 2 + 1 ELSE 0) = Len(queue) - 1
      <4>1. \A n \in Nat \ {0} : (IF 2 <= n THEN n - 2 + 1 ELSE 0) = n - 1
        OBVIOUS
      <4> QED
        BY <1>1, <4>1, Zenon
    <3> QED
      BY <3>2, <3>4, <3>5
  <2> QED
    BY <2>1, <2>2 DEF RemoveAt
<1>3. queue[1].serial \in Nat \ {0}
  <2>1. queue[1] \in Event
    BY <1>1, ElementOfSeq
  <2> QED
    BY <2>1 DEF Event
<1> HIDE DEF rest
<1>4. /\ Serials(queue) \in Seq(Nat \ {0}) /\ Len(Serials(queue)) = Len(queue)
      /\ \A i \in 1 .. Len(queue) : Serials(queue)[i] = queue[i].serial
      /\ Serials(rest) \in Seq(Nat \ {0}) /\ Len(Serials(rest)) = Len(queue) - 1
      /\ \A i \in 1 .. Len(queue) - 1 : Serials(rest)[i] = queue[i + 1].serial
  <2>1. /\ Serials(queue) \in Seq(Nat \ {0}) /\ Len(Serials(queue)) = Len(queue)
        /\ \A i \in 1 .. Len(queue) : Serials(queue)[i] = queue[i].serial
    BY SerialsOf, Zenon
  <2>2. /\ Serials(rest) \in Seq(Nat \ {0}) /\ Len(Serials(rest)) = Len(rest)
        /\ \A i \in 1 .. Len(rest) : Serials(rest)[i] = rest[i].serial
    BY <1>2, SerialsOf, Zenon
  <2> DEFINE all == Serials(queue)
             left == Serials(rest)
  <2> HIDE DEF all, left
  <2>3. Len(left) = Len(queue) - 1
    BY <1>2, <2>2 DEF left
  <2>4. \A i \in 1 .. Len(queue) - 1 : left[i] = queue[i + 1].serial
    <3>1. ASSUME NEW i \in 1 .. Len(queue) - 1 PROVE left[i] = queue[i + 1].serial
      <4>1. i \in 1 .. Len(rest)
        BY <1>2
      <4>2. left[i] = rest[i].serial
        BY <2>2, <4>1, Zenon DEF left
      <4>3. rest[i] = queue[i + 1]
        BY <1>2, Zenon
      <4> QED
        BY <4>2, <4>3, Zenon
    <3> QED
      BY <3>1
  <2> QED
    BY <2>1, <2>2, <2>3, <2>4, Zenon DEF left
<1>5. Append(taken, queue[1].serial) \o Serials(rest) = taken \o Serials(queue)
  <2> DEFINE first == queue[1].serial
             all == Serials(queue)
             left == Serials(rest)
  <2>1. /\ all \in Seq(Nat \ {0}) /\ left \in Seq(Nat \ {0}) /\ first \in Nat \ {0}
        /\ Len(all) > 0 /\ all[1] = first /\ Len(left) = Len(all) - 1
        /\ \A i \in 1 .. Len(left) : left[i] = all[i + 1]
    <3>1. \A i \in 1 .. Len(queue) - 1 : i + 1 \in 1 .. Len(queue)
      BY <1>1
    <3> QED
      BY <1>1, <1>3, <1>4, <3>1
  <2> DEFINE Serial == Nat \ {0}
  <2> HIDE DEF first, all, left, Serial
  <2>2. taken \in Seq(Serial) /\ all \in Seq(Serial) /\ left \in Seq(Serial) /\ first \in Serial
    BY <2>1 DEF Serial
  <2>3. Splits(all, first, left)
    BY <2>1 DEF Splits
  <2>4. Append(taken, first) \o left = taken \o all
    BY <2>2, <2>3, SameJoin, ZenonT(20)
  <2> QED
    BY <2>4 DEF first, all, left
<1> QED
  BY <1>2, <1>5 DEF rest

(* Every notification has the one id, so the first that a filter finds is  *)
(* the first there is.                                                     *)
LEMMA FirstIsFirst ==
    ASSUME NEW queue \in Seq(Event), NEW filter
    PROVE  FirstWith(queue, filter) = 0 \/ (FirstWith(queue, filter) = 1 /\ queue # <<>>)
<1> DEFINE found == {i \in 1 .. Len(queue) : filter \in {0, queue[i].id}}
<1>1. CASE found = {}
  BY <1>1 DEF FirstWith
<1>2. CASE found # {}
  <2>1. PICK i \in 1 .. Len(queue) : filter \in {0, queue[i].id}
    BY <1>2
  <2>2. \A k \in 1 .. Len(queue) : queue[k] \in Event
    OBVIOUS
  <2>3. \A k \in 1 .. Len(queue) : queue[k].id = EventId
    BY <2>2 DEF Event
  <2>4. Len(queue) \in Nat /\ 1 \in 1 .. Len(queue) /\ queue # <<>>
    BY <2>1
  <2>5. 1 \in found /\ found \subseteq 1 .. Len(queue)
    BY <2>1, <2>3, <2>4
  <2> HIDE DEF found
  <2>6. \A k \in found : k \in Nat /\ 1 <= k
    BY <2>4, <2>5
  <2>7. (CHOOSE k \in found : \A j \in found : k <= j) = 1
    <3> DEFINE first == CHOOSE k \in found : \A j \in found : k <= j
    <3>1. \E k \in found : \A j \in found : k <= j
      BY <2>5, <2>6
    <3>2. first \in found /\ \A j \in found : first <= j
      BY <3>1, Zenon
    <3>3. first <= 1 /\ first \in Nat /\ 1 <= first
      BY <2>5, <2>6, <3>2
    <3> QED
      BY <3>3
  <2> QED
    BY <1>2, <2>4, <2>7 DEF FirstWith, found
<1> QED
  BY <1>1, <1>2

-----------------------------------------------------------------------------
(* A step that brings nothing to a listener and ends no wait for an event  *)
(* that the listener should get.                                           *)
LEMMA KeepArrived ==
    ASSUME NEW l \in Listeners, ArrivedOK(l), Arrived(l)' = Arrived(l),
           raised' = raised, expected'[l] = expected[l], areas'[l] = areas[l],
           \A t \in Callers : Waits(t, l)' => Waits(t, l) /\ call'[t].serial = call[t].serial,
           \A t \in Callers : Waits(t, l) /\ expected[l] # {} =>
                                 Waits(t, l)' /\ call'[t].serial = call[t].serial
    PROVE  ArrivedOK(l)'
<1>1. OnTheWay(l) = {call[t].serial : t \in {u \in Callers : Waits(u, l)}}
  BY DEF OnTheWay, Waits
<1>2. OnTheWay(l)' = {call'[t].serial : t \in {u \in Callers : Waits(u, l)'}}
  BY DEF OnTheWay, Waits
<1>3. expected[l] # {} => OnTheWay(l) \subseteq OnTheWay(l)'
  BY <1>1, <1>2
<1>4. (expected[l] \ OnTheWay(l))' \subseteq Range(Arrived(l)')
  <2>1. (expected[l] \ OnTheWay(l))' \subseteq expected[l] \ OnTheWay(l)
    BY <1>3
  <2> QED
    BY <2>1 DEF ArrivedOK
<1> QED
  BY <1>4 DEF ArrivedOK

(* An event that arrives: no earlier one of its dialogue comes after it.   *)
LEMMA AppendArrived ==
    ASSUME NEW l \in Listeners, NEW t \in Callers, ArrivedOK(l), SerialsOK,
           Arrived(l) \in Seq(Nat \ {0}), Len(raised) \in Nat, call[t].serial \in Nat,
           Waits(t, l), EventArea \in areas[l],
           Arrived(l)' = Append(Arrived(l), call[t].serial),
           raised' = raised, expected'[l] = expected[l], areas'[l] = areas[l],
           \A u \in Callers \ {t} : call'[u] = call[u], ~Waits(t, l)'
    PROVE  ArrivedOK(l)'
<1> DEFINE old == Arrived(l)
           new == Arrived(l)'
           serial == call[t].serial
<1>1. /\ serial \in 1 .. Len(raised) /\ raised[serial].caller = t
      /\ \A s \in 1 .. Len(raised) : raised[s].caller = t => s <= serial
  BY DEF SerialsOK, Waits, Loops
<1>2. \A i \in 1 .. Len(old) : old[i] \in 1 .. Len(raised) /\ old[i] # serial
  BY DEF ArrivedOK
<1>3. /\ Len(old) \in Nat /\ Len(new) = Len(old) + 1 /\ new[Len(old) + 1] = serial
      /\ \A i \in 1 .. Len(old) : new[i] = old[i]
  OBVIOUS
<1>4. DOMAIN old = 1 .. Len(old) /\ DOMAIN new = 1 .. Len(new) /\ new \in Seq(Nat \ {0})
  <2>1. new \in Seq(Nat \ {0})
    BY <1>1
  <2> QED
    BY <2>1
<1>5. OnTheWay(l) = {call[u].serial : u \in {v \in Callers : Waits(v, l)}}
  BY DEF OnTheWay, Waits
<1>6. OnTheWay(l)' = {call'[u].serial : u \in {v \in Callers : Waits(v, l)'}}
  BY DEF OnTheWay, Waits
<1>7. \A u \in Callers \ {t} : Waits(u, l)' <=> Waits(u, l)
  BY DEF Waits
<1>8. OnTheWay(l) \subseteq OnTheWay(l)' \cup {serial}
  BY <1>5, <1>6, <1>7
<1> HIDE DEF old, new, serial
<1>9. \A i \in 1 .. Len(new) : i \in 1 .. Len(old) \/ i = Len(old) + 1
  BY <1>3
<1>10. \A i \in 1 .. Len(new) : new[i] \in 1 .. Len(raised)
  BY <1>1, <1>2, <1>3, <1>9
<1>11. \A i, j \in 1 .. Len(new) : i # j => new[i] # new[j]
  <2>1. \A i, j \in 1 .. Len(old) : i # j => old[i] # old[j]
    BY DEF ArrivedOK, old
  <2> QED
    BY <1>2, <1>3, <1>9, <2>1, ZenonT(20)
<1>12. expected'[l] \ OnTheWay(l)' \subseteq Range(new)
  <2>1. expected[l] \ OnTheWay(l) \subseteq Range(old)
    BY DEF ArrivedOK, old
  <2>2. Range(old) = {old[i] : i \in 1 .. Len(old)} /\ Range(new) = {new[i] : i \in 1 .. Len(new)}
    BY <1>4 DEF Range
  <2>3. Range(old) \cup {serial} \subseteq Range(new)
    <3>1. Len(old) + 1 \in 1 .. Len(new) /\ \A i \in 1 .. Len(old) : i \in 1 .. Len(new)
      BY <1>3
    <3> QED
      BY <1>3, <2>2, <3>1, ZenonT(20)
  <2> QED
    BY <1>8, <2>1, <2>3
<1>13. ASSUME NEW i \in 1 .. Len(new), NEW j \in 1 .. Len(new), i < j,
              raised[new[i]].caller = raised[new[j]].caller
       PROVE  new[i] < new[j]
  <2>1. CASE j \in 1 .. Len(old)
    <3>1. i \in 1 .. Len(old)
      BY <1>3, <1>13, <2>1
    <3> QED
      BY <1>3, <1>13, <2>1, <3>1 DEF ArrivedOK, old
  <2>2. CASE j = Len(old) + 1
    <3>1. i \in 1 .. Len(old) /\ new[i] = old[i] /\ new[j] = serial
      BY <1>3, <1>13, <2>2
    <3>2. old[i] \in 1 .. Len(raised) /\ old[i] # serial /\ raised[old[i]].caller = t
      BY <1>1, <1>2, <1>13, <3>1
    <3>3. old[i] <= serial /\ old[i] \in Nat /\ serial \in Nat
      BY <1>1, <3>2
    <3> QED
      BY <3>1, <3>2, <3>3
  <2> QED
    BY <1>9, <2>1, <2>2
<1>14. ASSUME NEW u \in Callers, Waits(u, l)', NEW i \in 1 .. Len(new)
       PROVE  new[i] # call'[u].serial
  <2>1. u # t /\ call'[u] = call[u] /\ Waits(u, l)
    BY <1>7, <1>14
  <2>2. /\ \A k \in 1 .. Len(old) : old[k] # call[u].serial
        /\ raised[call[u].serial].caller = u
    BY <2>1 DEF ArrivedOK, SerialsOK, Waits, Loops, old
  <2> QED
    BY <1>1, <1>3, <1>9, <2>1, <2>2
<1> QED
  BY <1>10, <1>11, <1>12, <1>13, <1>14 DEF ArrivedOK, new

(* No listener and no call.                                                *)
LEMMA InitNotifyInv == NotifyInit => NotifyInv
<1> SUFFICES ASSUME NotifyInit PROVE NotifyBody
  BY DEF NotifyInv
<1> USE DEF NotifyInit
<1>1. NotifyTypeOK
  <2>1. Idle \in CallType
    BY DEF CallType
  <2> QED
    BY <2>1 DEF NotifyTypeOK
<1>2. CallsOK /\ SerialsOK
  BY DEF CallsOK, HoldsOK, Apart, SerialsOK, Loops, Idle
<1>3. \A l \in Listeners : NewListener(l)
  BY DEF NewListener
<1> QED
  BY <1>1, <1>2, <1>3 DEF NotifyBody

(* A listener that was just made: nothing has arrived, it waits for nothing. *)
LEMMA NewIsArrived == ASSUME NEW l \in Listeners, NewListener(l)' PROVE ArrivedOK(l)'
<1>1. received'[l] = <<>> /\ notifications'[l] = <<>> /\ expected'[l] = {}
  BY DEF NewListener
<1>2. Serials(notifications'[l]) = <<>>
  BY <1>1 DEF Serials
<1>3. Arrived(l)' = <<>> /\ Len(<<>>) = 0
  BY <1>1, <1>2 DEF Arrived
<1> QED
  BY <1>1, <1>3 DEF ArrivedOK

(* What has arrived is a sequence of serials.                              *)
LEMMA ArrivedType ==
    ASSUME NotifyTypeOK, NEW l \in Listeners PROVE Arrived(l) \in Seq(Nat \ {0})
<1>1. received[l] \in Seq(Nat \ {0}) /\ notifications[l] \in Seq(Event)
  BY DEF NotifyTypeOK
<1>2. Serials(notifications[l]) \in Seq(Nat \ {0})
  BY <1>1, SerialsOf
<1> QED
  BY <1>1, <1>2, ConcatProperties DEF Arrived

(* The steps that neither raise an event nor bring one.                    *)
LEMMA QuietStep ==
    ASSUME NotifyBody, NEW t \in Callers, ~Loops(t), ~Loops(t)',
           \A u \in Callers \ {t} : call'[u] = call[u],
           UNCHANGED <<notifications, raised, expected, received>>
    PROVE  /\ SerialsOK'
           /\ \A l \in live : areas'[l] = areas[l] => ArrivedOK(l)'
<1>1. SerialsOK'
  BY DEF NotifyBody, SerialsOK, Loops
<1>2. ASSUME NEW l \in live, areas'[l] = areas[l] PROVE ArrivedOK(l)'
  <2>1. l \in Listeners /\ ArrivedOK(l)
    BY DEF NotifyBody, NotifyTypeOK
  <2>2. Arrived(l)' = Arrived(l)
    BY DEF Arrived, Serials
  <2>3. \A u \in Callers : Waits(u, l)' => Waits(u, l) /\ call'[u].serial = call[u].serial
    BY DEF Waits, Loops
  <2>4. \A u \in Callers : Waits(u, l) => Waits(u, l)' /\ call'[u].serial = call[u].serial
    BY DEF Waits, Loops
  <2> QED
    BY <1>2, <2>1, <2>2, <2>3, <2>4, KeepArrived
<1> QED
  BY <1>1, <1>2

-----------------------------------------------------------------------------
(* A call that creates a listener takes one that no other makes.           *)
LEMMA BeginCreateStep ==
    ASSUME NotifyBody, NEW t \in Callers, NEW mask \in AreaMasks, BeginCreate(t, mask)
    PROVE  NotifyBody'
<1>0. NotifyTypeOK /\ CallsOK
  BY DEF NotifyBody
<1>1. PICK l \in Listeners \ live :
        /\ \A u \in Callers : call[u].op = "insert" => call[u].listener # l
        /\ Become(t, [op |-> "insert", listener |-> l, mask |-> mask])
  BY DEF BeginCreate
<1> DEFINE r == [op |-> "insert", listener |-> l, mask |-> mask]
<1>2. r \in CallType /\ r.op = "insert" /\ r.listener = l
  BY DEF CallType, InsertCall
<1> HIDE DEF r
<1>3. /\ call' \in [Callers -> CallType] /\ call'[t] = r
      /\ \A u \in Callers \ {t} : call'[u] = call[u]
  BY <1>0, <1>1, <1>2, NewCall DEF NotifyTypeOK, r
<1>4. UNCHANGED <<live, areas, notifications, raised, expected, received>> /\ call[t].op = "none"
  BY DEF BeginCreate, Idle
<1>5. NotifyTypeOK'
  BY <1>0, <1>3, <1>4 DEF NotifyTypeOK
<1>6. CallsOK'
  <2>1. ASSUME NEW u \in Callers PROVE HoldsOK(u)'
    BY <1>0, <1>1, <1>2, <1>3, <1>4 DEF CallsOK, HoldsOK, Loops
  <2>2. ASSUME NEW u \in Callers \ {t} PROVE Apart(u, t)' /\ Apart(t, u)'
    BY <1>0, <1>1, <1>2, <1>3, <1>4 DEF CallsOK, HoldsOK, Apart, Loops
  <2>3. ASSUME NEW u \in Callers \ {t}, NEW v \in Callers \ {t}, u # v PROVE Apart(u, v)'
    BY <1>0, <1>3, <2>3 DEF CallsOK, Apart, Loops
  <2> QED
    BY <2>1, <2>2, <2>3 DEF CallsOK
<1>7. SerialsOK' /\ \A k \in live : ArrivedOK(k)'
  BY <1>2, <1>3, <1>4, QuietStep DEF Loops
<1>8. \A k \in Listeners \ live : NewListener(k)'
  BY <1>4 DEF NotifyBody, NewListener
<1> QED
  BY <1>4, <1>5, <1>6, <1>7, <1>8 DEF NotifyBody

(* The constructor inserts the listener, which has no areas yet.           *)
LEMMA InsertListenerStep ==
    ASSUME NotifyBody, NEW t \in Callers, InsertListener(t)
    PROVE  NotifyBody'
<1>0. NotifyTypeOK /\ CallsOK /\ call[t].op = "insert"
  BY DEF NotifyBody, InsertListener
<1>1. PICK l \in Listeners \ live : l = call[t].listener /\ call[t].mask \in AreaMasks
  <2>1. call[t] \in InsertCall
    BY <1>0, CallFields DEF NotifyTypeOK
  <2> QED
    BY <1>0, <2>1 DEF InsertCall, CallsOK, HoldsOK
<1>2. PICK r \in CallType : r = [op |-> "areas", listener |-> l, mask |-> call[t].mask]
  BY <1>1 DEF CallType, InsertCall
<1>3. r.op = "areas" /\ r.listener = l
  BY <1>2
<1>4. /\ live' = live \cup {l} /\ UNCHANGED <<areas, notifications, raised, expected, received>>
      /\ call' \in [Callers -> CallType] /\ call'[t] = r
      /\ \A u \in Callers \ {t} : call'[u] = call[u]
  BY <1>0, <1>1, <1>2, NewCall DEF NotifyTypeOK, InsertListener
<1>5. NewListener(l)
  BY <1>1 DEF NotifyBody
<1>6. NotifyTypeOK'
  BY <1>0, <1>1, <1>4 DEF NotifyTypeOK
<1>7. CallsOK'
  <2>1. ASSUME NEW u \in Callers PROVE HoldsOK(u)'
    <3>1. CASE u = t
      BY <1>3, <1>4, <1>5, <3>1 DEF HoldsOK, Loops, NewListener
    <3>2. CASE u # t
      <4>1. call'[u] = call[u] /\ HoldsOK(u) /\ Apart(t, u)
        BY <1>0, <1>4, <3>2 DEF CallsOK
      <4> QED
        BY <1>0, <1>1, <1>4, <4>1 DEF HoldsOK, Apart, Loops
    <3> QED
      BY <3>1, <3>2
  <2>2. ASSUME NEW u \in Callers \ {t} PROVE Apart(u, t)' /\ Apart(t, u)'
    BY <1>0, <1>1, <1>3, <1>4 DEF CallsOK, Apart, Loops
  <2>3. ASSUME NEW u \in Callers \ {t}, NEW v \in Callers \ {t}, u # v PROVE Apart(u, v)'
    BY <1>0, <1>4, <2>3 DEF CallsOK, Apart, Loops
  <2> QED
    BY <2>1, <2>2, <2>3 DEF CallsOK
<1>8. SerialsOK' /\ \A k \in live : ArrivedOK(k)'
  BY <1>0, <1>3, <1>4, QuietStep DEF Loops
<1>9. ArrivedOK(l)'
  BY <1>4, <1>5, NewIsArrived DEF NewListener
<1>10. \A k \in Listeners \ live' : NewListener(k)'
  BY <1>4 DEF NotifyBody, NewListener
<1> QED
  BY <1>4, <1>6, <1>7, <1>8, <1>9, <1>10 DEF NotifyBody

(* The areas are set: from here on events are for this listener.           *)
LEMMA SetAreasStep ==
    ASSUME NotifyBody, NEW t \in Callers, SetAreas(t)
    PROVE  NotifyBody'
<1>0. NotifyTypeOK /\ CallsOK /\ HoldsOK(t) /\ call[t].op = "areas"
  BY DEF NotifyBody, SetAreas, CallsOK
<1>1. PICK l \in live : l = call[t].listener /\ call[t].mask \in AreaMasks /\ areas[l] = {}
  <2>1. call[t] \in InsertCall
    BY <1>0, CallFields DEF NotifyTypeOK
  <2> QED
    BY <1>0, <2>1 DEF InsertCall, HoldsOK
<1>2. Idle \in CallType /\ Idle.op = "none"
  BY DEF CallType, Idle
<1>3. /\ UNCHANGED <<live, notifications, raised, expected, received>>
      /\ areas' = [areas EXCEPT ![l] = call[t].mask]
      /\ call' \in [Callers -> CallType] /\ call'[t] = Idle
      /\ \A u \in Callers \ {t} : call'[u] = call[u]
  BY <1>0, <1>1, <1>2, NewCall DEF NotifyTypeOK, SetAreas
<1>4. live \subseteq Listeners
  BY <1>0 DEF NotifyTypeOK
<1>5. NotifyTypeOK'
  BY <1>0, <1>1, <1>3, <1>4 DEF NotifyTypeOK
<1>6. CallsOK'
  <2>1. ASSUME NEW u \in Callers PROVE HoldsOK(u)'
    <3>1. CASE u = t
      BY <1>2, <1>3, <3>1 DEF HoldsOK, Loops
    <3>2. CASE u # t
      <4>1. call'[u] = call[u] /\ HoldsOK(u) /\ Apart(t, u)
        BY <1>0, <1>3, <3>2 DEF CallsOK
      <4>2. \A k \in Listeners \ {l} : areas'[k] = areas[k]
        BY <1>0, <1>3 DEF NotifyTypeOK
      <4>3. ~(call[u].op = "append" /\ call[u].listener = l)
        BY <1>1, <4>1 DEF HoldsOK
      <4> QED
        BY <1>0, <1>1, <1>3, <1>4, <4>1, <4>2, <4>3 DEF HoldsOK, Apart, Loops
    <3> QED
      BY <3>1, <3>2
  <2>2. ASSUME NEW u \in Callers, NEW v \in Callers, u # v PROVE Apart(u, v)'
    BY <1>0, <1>2, <1>3, <2>2 DEF CallsOK, Apart, Loops
  <2> QED
    BY <2>1, <2>2 DEF CallsOK
<1>7. SerialsOK' /\ \A k \in live : areas'[k] = areas[k] => ArrivedOK(k)'
  BY <1>0, <1>2, <1>3, QuietStep DEF Loops
<1>8. ASSUME NEW k \in live PROVE ArrivedOK(k)'
  <2>1. CASE k # l
    BY <1>0, <1>3, <1>4, <1>7, <2>1 DEF NotifyTypeOK
  <2>2. CASE k = l
    <3>1. Arrived(l) = <<>> /\ expected[l] = {}
      BY <1>1 DEF NotifyBody, ArrivedOK
    <3>2. Arrived(l)' = <<>> /\ expected'[l] = {} /\ Len(<<>>) = 0
      BY <1>3, <3>1 DEF Arrived, Serials
    <3> QED
      BY <2>2, <3>2 DEF ArrivedOK
  <2> QED
    BY <2>1, <2>2
<1>9. \A k \in Listeners \ live : NewListener(k)'
  BY <1>0, <1>3 DEF NotifyBody, NewListener, NotifyTypeOK
<1> QED
  BY <1>3, <1>5, <1>6, <1>7, <1>8, <1>9 DEF NotifyBody

(* A call that closes a listener, which no other call uses.                *)
LEMMA BeginCloseStep ==
    ASSUME NotifyBody, NEW t \in Callers, NEW l \in Listeners, BeginClose(t, l), ~raced'
    PROVE  NotifyBody'
<1>0. /\ NotifyTypeOK /\ CallsOK /\ call[t].op = "none" /\ l \in live
      /\ \A u \in Callers : call[u].op \in {"areas", "get", "erase"} => call[u].listener # l
  BY DEF NotifyBody, BeginClose, Idle
<1>1. PICK r \in CallType : r = [op |-> "erase", listener |-> l]
  BY DEF CallType, EraseCall
<1>2. r.op = "erase" /\ r.listener = l
  BY <1>1
<1>3. /\ UNCHANGED <<live, areas, notifications, raised, expected, received>>
      /\ call' \in [Callers -> CallType] /\ call'[t] = r
      /\ \A u \in Callers \ {t} : call'[u] = call[u]
  BY <1>0, <1>1, NewCall DEF NotifyTypeOK, BeginClose
<1>4. \A u \in Callers \ {t} : ~Loops(u)
  BY DEF BeginClose, Uses, Reads, Loops
<1>5. NotifyTypeOK'
  BY <1>0, <1>3 DEF NotifyTypeOK
<1>6. CallsOK'
  <2>1. ASSUME NEW u \in Callers PROVE HoldsOK(u)'
    BY <1>0, <1>2, <1>3 DEF CallsOK, HoldsOK, Loops
  <2>2. ASSUME NEW u \in Callers \ {t} PROVE Apart(u, t)' /\ Apart(t, u)'
    BY <1>0, <1>2, <1>3, <1>4 DEF CallsOK, HoldsOK, Apart, Loops
  <2>3. ASSUME NEW u \in Callers \ {t}, NEW v \in Callers \ {t}, u # v PROVE Apart(u, v)'
    BY <1>0, <1>3, <2>3 DEF CallsOK, Apart, Loops
  <2> QED
    BY <2>1, <2>2, <2>3 DEF CallsOK
<1>7. SerialsOK' /\ \A k \in live : ArrivedOK(k)'
  BY <1>0, <1>2, <1>3, QuietStep DEF Loops
<1>8. \A k \in Listeners \ live : NewListener(k)'
  BY <1>3 DEF NotifyBody, NewListener
<1> QED
  BY <1>3, <1>5, <1>6, <1>7, <1>8 DEF NotifyBody

(* The destructor erases the listener: no loop is in progress.             *)
LEMMA EraseListenerStep ==
    ASSUME NotifyBody, NEW t \in Callers, EraseListener(t)
    PROVE  NotifyBody'
<1>0. NotifyTypeOK /\ CallsOK /\ HoldsOK(t) /\ call[t].op = "erase"
  BY DEF NotifyBody, EraseListener, CallsOK
<1>1. PICK l \in live : l = call[t].listener
  BY <1>0 DEF HoldsOK
<1>2. Idle \in CallType /\ Idle.op = "none"
  BY DEF CallType, Idle
<1>3. /\ live' = live \ {l} /\ UNCHANGED raised
      /\ areas' = [areas EXCEPT ![l] = {}] /\ expected' = [expected EXCEPT ![l] = {}]
      /\ notifications' = [notifications EXCEPT ![l] = <<>>]
      /\ received' = [received EXCEPT ![l] = <<>>]
  BY <1>1 DEF EraseListener
<1>4. /\ call' \in [Callers -> CallType] /\ call'[t] = Idle
      /\ \A u \in Callers \ {t} : call'[u] = call[u]
  BY <1>0, <1>2, NewCall DEF NotifyTypeOK, EraseListener
<1>5. live \subseteq Listeners /\ l \in Listeners
  BY <1>0 DEF NotifyTypeOK
<1>6. \A k \in Listeners \ {l} : /\ areas'[k] = areas[k] /\ expected'[k] = expected[k]
                                 /\ notifications'[k] = notifications[k]
                                 /\ received'[k] = received[k]
  BY <1>0, <1>3 DEF NotifyTypeOK
<1>7. ASSUME NEW u \in Callers \ {t} PROVE ~Loops(u)
  BY <1>0, <1>7 DEF CallsOK, Apart
<1>8. NotifyTypeOK'
  <2>1. <<>> \in Seq(Event) /\ <<>> \in Seq(Nat \ {0})
    OBVIOUS
  <2> QED
    BY <1>0, <1>3, <1>4, <2>1 DEF NotifyTypeOK
<1>9. CallsOK'
  <2>1. ASSUME NEW u \in Callers PROVE HoldsOK(u)'
    <3>1. CASE u = t
      BY <1>2, <1>4, <3>1 DEF HoldsOK, Loops
    <3>2. CASE u # t
      <4>1. call'[u] = call[u] /\ HoldsOK(u) /\ Apart(t, u) /\ ~Loops(u) /\ Apart(u, t)
        BY <1>0, <1>4, <1>7, <3>2 DEF CallsOK
      <4> QED
        BY <1>0, <1>1, <1>3, <1>5, <1>6, <4>1 DEF HoldsOK, Apart, Loops
    <3> QED
      BY <3>1, <3>2
  <2>2. ASSUME NEW u \in Callers, NEW v \in Callers, u # v PROVE Apart(u, v)'
    BY <1>0, <1>2, <1>4, <2>2 DEF CallsOK, Apart, Loops
  <2> QED
    BY <2>1, <2>2 DEF CallsOK
<1>10. SerialsOK'
  BY <1>2, <1>4, <1>7 DEF SerialsOK, Loops
<1>11. ASSUME NEW k \in live' PROVE ArrivedOK(k)'
  <2>1. k \in Listeners \ {l} /\ ArrivedOK(k)
    BY <1>3, <1>5 DEF NotifyBody
  <2>2. Arrived(k)' = Arrived(k) /\ raised' = raised /\ expected'[k] = expected[k] /\ areas'[k] = areas[k]
    BY <1>3, <1>6, <2>1 DEF Arrived, Serials
  <2>3. \A u \in Callers : ~Waits(u, k) /\ ~Waits(u, k)'
    BY <1>0, <1>2, <1>4, <1>7 DEF Waits, Loops
  <2> QED
    BY <2>1, <2>2, <2>3, KeepArrived
<1>12. \A k \in Listeners \ live' : NewListener(k)'
  BY <1>0, <1>3, <1>5, <1>6 DEF NotifyBody, NewListener, NotifyTypeOK
<1> QED
  BY <1>8, <1>9, <1>10, <1>11, <1>12 DEF NotifyBody

(* A loop ends that has nothing more to bring.                             *)
LEMMA ReturnFromEventStep ==
    ASSUME NotifyBody, NEW t \in Callers, ReturnFromEvent(t)
    PROVE  NotifyBody'
<1>0. NotifyTypeOK /\ CallsOK /\ HoldsOK(t) /\ call[t].op = "event" /\ call[t].left = {}
  BY DEF NotifyBody, ReturnFromEvent, CallsOK
<1>1. Idle \in CallType /\ Idle.op = "none"
  BY DEF CallType, Idle
<1>2. /\ UNCHANGED <<live, areas, notifications, raised, expected, received>>
      /\ call' \in [Callers -> CallType] /\ call'[t] = Idle
      /\ \A u \in Callers \ {t} : call'[u] = call[u]
  BY <1>0, <1>1, NewCall DEF NotifyTypeOK, ReturnFromEvent
<1>3. NotifyTypeOK'
  BY <1>0, <1>2 DEF NotifyTypeOK
<1>4. CallsOK'
  <2>1. ASSUME NEW u \in Callers PROVE HoldsOK(u)'
    BY <1>0, <1>1, <1>2 DEF CallsOK, HoldsOK, Loops
  <2>2. ASSUME NEW u \in Callers, NEW v \in Callers, u # v PROVE Apart(u, v)'
    BY <1>0, <1>1, <1>2, <2>2 DEF CallsOK, Apart, Loops
  <2> QED
    BY <2>1, <2>2 DEF CallsOK
<1>5. SerialsOK'
  BY <1>1, <1>2 DEF NotifyBody, SerialsOK, Loops
<1>6. ASSUME NEW l \in live PROVE ArrivedOK(l)'
  <2>1. l \in Listeners /\ ArrivedOK(l) /\ Arrived(l)' = Arrived(l)
    BY <1>0, <1>2 DEF NotifyBody, NotifyTypeOK, Arrived, Serials
  <2>2. \A u \in Callers : /\ Waits(u, l)' <=> Waits(u, l)
                           /\ Waits(u, l) => call'[u].serial = call[u].serial
    BY <1>0, <1>1, <1>2 DEF Waits
  <2> QED
    BY <1>2, <2>1, <2>2, KeepArrived
<1>7. \A l \in Listeners \ live : NewListener(l)'
  BY <1>2 DEF NotifyBody, NewListener
<1> QED
  BY <1>2, <1>3, <1>4, <1>5, <1>6, <1>7 DEF NotifyBody

(* A loop begins: its serial is the largest, and every listener of the     *)
(* area expects it.                                                        *)
LEMMA BeginEventStep ==
    ASSUME NotifyBody, NEW t \in Callers, NEW params \in Params, BeginEvent(t, params), ~raced',
           call[t] = Idle \/ (call[t].op = "event" /\ call[t].left = {})
    PROVE  NotifyBody'
<1> DEFINE serial == Len(raised) + 1
           RaisedType == [caller : Callers, param : {0, 1}]
<1>0. NotifyTypeOK /\ CallsOK /\ SerialsOK
  BY DEF NotifyBody
<1>1. raised \in Seq(RaisedType) /\ Len(raised) \in Nat /\ serial \in Nat \ {0} /\ live \subseteq Listeners
  BY <1>0 DEF NotifyTypeOK
<1>2. PICK r \in CallType :
        r = [op |-> "event", serial |-> serial, left |-> live, params |-> params]
  BY <1>1 DEF CallType, EventCall
<1>3. r.op = "event" /\ r.left = live /\ r.serial = serial
  BY <1>2
<1>4. /\ UNCHANGED <<live, areas, notifications, received>>
      /\ expected' = [l \in Listeners |-> IF l \in live /\ EventArea \in areas[l]
                                          THEN expected[l] \cup {serial} ELSE expected[l]]
      /\ raised' = Append(raised, [caller |-> t, param |-> Head(params)])
  BY DEF BeginEvent
<1>5. /\ call' \in [Callers -> CallType] /\ call'[t] = r
      /\ \A u \in Callers \ {t} : call'[u] = call[u]
  BY <1>0, <1>2, NewCall DEF NotifyTypeOK, BeginEvent
<1>6. \A u \in Callers \ {t} : call[u].op # "erase"
  BY DEF BeginEvent, Uses, Changes
<1>7. /\ raised' \in Seq(RaisedType) /\ Len(raised') = serial
      /\ \A s \in 1 .. Len(raised) : raised'[s] = raised[s]
      /\ raised'[serial].caller = t
  <2>1. [caller |-> t, param |-> Head(params)] \in RaisedType
    <3>1. Head(params) \in {0, 1}
      BY DEF Params
    <3> QED
      BY <3>1
  <2> DEFINE event == [caller |-> t, param |-> Head(params)]
  <2>2. event.caller = t
    OBVIOUS
  <2> HIDE DEF event, RaisedType
  <2> QED
    BY <1>1, <1>4, <2>1, <2>2 DEF event
<1> HIDE DEF serial, RaisedType
<1>8. /\ \A s \in 1 .. Len(raised) : s \in 1 .. serial /\ s # serial /\ s <= serial
      /\ \A s \in 1 .. serial : s = serial \/ s \in 1 .. Len(raised)
      /\ serial \in 1 .. serial /\ serial <= serial
  BY <1>1 DEF serial
<1>9. \A l \in Listeners : ~Waits(t, l)
  BY DEF Waits, Idle
<1>10. \A l \in Listeners : Waits(t, l)' <=> l \in live
  BY <1>3, <1>5 DEF Waits
<1>11. \A u \in Callers \ {t} : \A l \in Listeners : Waits(u, l)' <=> Waits(u, l)
  BY <1>5 DEF Waits
<1>12. NotifyTypeOK'
  <2>1. expected' \in [Listeners -> SUBSET (Nat \ {0})]
    BY <1>0, <1>1, <1>4 DEF NotifyTypeOK
  <2> QED
    BY <1>0, <1>4, <1>5, <1>7, <2>1 DEF NotifyTypeOK, RaisedType
<1>13. CallsOK'
  <2>1. ASSUME NEW u \in Callers PROVE HoldsOK(u)'
    BY <1>0, <1>3, <1>4, <1>5 DEF CallsOK, HoldsOK, Loops
  <2>2. ASSUME NEW u \in Callers \ {t} PROVE Apart(u, t)' /\ Apart(t, u)'
    BY <1>3, <1>5, <1>6 DEF Apart, Loops
  <2>3. ASSUME NEW u \in Callers \ {t}, NEW v \in Callers \ {t}, u # v PROVE Apart(u, v)'
    BY <1>0, <1>5, <2>3 DEF CallsOK, Apart, Loops
  <2> QED
    BY <2>1, <2>2, <2>3 DEF CallsOK
<1>14. SerialsOK'
  <2>1. ASSUME NEW u \in Callers, Loops(u)'
        PROVE  /\ call'[u].serial \in 1 .. Len(raised')
               /\ raised'[call'[u].serial].caller = u
               /\ \A s \in 1 .. Len(raised') : raised'[s].caller = u => s <= call'[u].serial
    <3>1. CASE u = t
      BY <1>3, <1>5, <1>7, <1>8, <3>1
    <3>2. CASE u # t
      <4>1. /\ call[u].serial \in 1 .. Len(raised) /\ raised[call[u].serial].caller = u
            /\ \A s \in 1 .. Len(raised) : raised[s].caller = u => s <= call[u].serial
            /\ call'[u] = call[u]
        BY <1>0, <1>5, <2>1, <3>2 DEF SerialsOK, Loops
      <4> QED
        BY <1>7, <1>8, <3>2, <4>1
    <3> QED
      BY <3>1, <3>2
  <2> QED
    BY <2>1 DEF SerialsOK
<1>15. ASSUME NEW l \in live PROVE ArrivedOK(l)'
  <2> DEFINE new == Arrived(l)'
  <2>1. l \in Listeners /\ ArrivedOK(l) /\ new = Arrived(l)
    BY <1>1, <1>4 DEF NotifyBody, Arrived, Serials
  <2> HIDE DEF new
  <2>2. \A i \in 1 .. Len(new) : new[i] \in 1 .. Len(raised)
    BY <2>1 DEF ArrivedOK
  <2>3. \A i \in 1 .. Len(new) : new[i] \in 1 .. Len(raised') /\ new[i] # serial
                                 /\ raised'[new[i]] = raised[new[i]]
    BY <1>7, <1>8, <2>2
  <2>4. expected'[l] \ OnTheWay(l)' \subseteq Range(new)
    <3>1. OnTheWay(l) = {call[u].serial : u \in {v \in Callers : Waits(v, l)}}
      BY DEF OnTheWay, Waits
    <3>2. OnTheWay(l)' = {call'[u].serial : u \in {v \in Callers : Waits(v, l)'}}
      BY DEF OnTheWay, Waits
    <3>3. OnTheWay(l) \subseteq OnTheWay(l)'
      BY <1>5, <1>9, <1>11, <2>1, <3>1, <3>2
    <3>4. serial \in OnTheWay(l)'
      BY <1>3, <1>5, <1>10, <2>1, <3>2
    <3>5. expected'[l] \subseteq expected[l] \cup {serial}
      BY <1>4, <2>1
    <3>6. expected[l] \ OnTheWay(l) \subseteq Range(new)
      BY <2>1 DEF ArrivedOK
    <3> QED
      BY <3>3, <3>4, <3>5, <3>6
  <2>5. EventArea \notin areas'[l] => new = <<>> /\ expected'[l] = {}
    BY <1>4, <2>1 DEF ArrivedOK
  <2>6. \A i, j \in 1 .. Len(new) : i # j => new[i] # new[j]
    BY <2>1 DEF ArrivedOK
  <2>7. \A i, j \in 1 .. Len(new) :
          i < j /\ raised'[new[i]].caller = raised'[new[j]].caller => new[i] < new[j]
    BY <2>1, <2>3, SMTT(20) DEF ArrivedOK
  <2>8. ASSUME NEW u \in Callers, Waits(u, l)', NEW i \in 1 .. Len(new) PROVE new[i] # call'[u].serial
    <3>1. CASE u = t
      BY <1>3, <1>5, <2>3, <3>1
    <3>2. CASE u # t
      BY <1>5, <1>11, <2>1, <2>8, <3>2 DEF ArrivedOK
    <3> QED
      BY <3>1, <3>2
  <2> QED
    BY <2>3, <2>4, <2>5, <2>6, <2>7, <2>8 DEF ArrivedOK, new
<1>16. \A l \in Listeners \ live : NewListener(l)'
  BY <1>4 DEF NotifyBody, NewListener
<1> QED
  BY <1>4, <1>12, <1>13, <1>14, <1>15, <1>16 DEF NotifyBody

(* A loop looks at a listener, and appends or passes it by.                *)
LEMMA VisitStep ==
    ASSUME NotifyBody, NEW t \in Callers, NEW l \in Listeners, Visit(t, l)
    PROVE  NotifyBody'
<1>0. /\ NotifyTypeOK /\ CallsOK /\ SerialsOK /\ HoldsOK(t) /\ Loops(t)
      /\ call[t].op = "event" /\ l \in call[t].left
  BY DEF NotifyBody, Visit, CallsOK, Loops
<1>1. /\ call[t].serial \in Nat \ {0} /\ call[t].left \subseteq Listeners /\ call[t].params \in Params
      /\ l \in live /\ live \subseteq Listeners
      /\ [call[t] EXCEPT !.left = @ \ {l}] \in CallType
      /\ LET r == [call[t] EXCEPT !.left = @ \ {l}]
         IN  r.op = "event" /\ r.left = call[t].left \ {l} /\ r.serial = call[t].serial
  <2>1. call[t] \in EventCall
    BY <1>0, CallFields DEF NotifyTypeOK
  <2>2. l \in live /\ live \subseteq Listeners
    BY <1>0 DEF HoldsOK, NotifyTypeOK
  <2> QED
    BY <2>1, <2>2 DEF EventCall, CallType
<1>2. PICK r \in CallType :
        /\ Become(t, r) /\ r.left = call[t].left \ {l} /\ r.serial = call[t].serial
        /\ \/ r.op = "append" /\ r.listener = l /\ EventArea \in areas[l]
           \/ r.op = "event" /\ EventArea \notin areas[l]
  <2>1. CASE EventArea \in areas[l]
    <3> DEFINE r == [op |-> "append", serial |-> call[t].serial, listener |-> l,
                     left |-> call[t].left \ {l}, params |-> call[t].params]
    <3>1. r \in CallType /\ r.left = call[t].left \ {l} /\ r.serial = call[t].serial
          /\ r.op = "append" /\ r.listener = l
      BY <1>1 DEF CallType, AppendCall
    <3>2. Become(t, r)
      BY <2>1 DEF Visit, StartAppend
    <3> QED
      BY <2>1, <3>1, <3>2
  <2>2. CASE EventArea \notin areas[l]
    BY <1>1, <2>2 DEF Visit
  <2> QED
    BY <2>1, <2>2
<1>3. /\ UNCHANGED <<live, areas, notifications, raised, expected, received>>
      /\ call' \in [Callers -> CallType] /\ call'[t] = r
      /\ \A u \in Callers \ {t} : call'[u] = call[u]
  BY <1>0, <1>2, NewCall DEF NotifyTypeOK, Visit
<1>4. NotifyTypeOK'
  BY <1>0, <1>3 DEF NotifyTypeOK
<1>5. CallsOK'
  <2>1. ASSUME NEW u \in Callers PROVE HoldsOK(u)'
    <3>1. CASE u = t
      BY <1>0, <1>1, <1>2, <1>3, <3>1 DEF HoldsOK, Loops
    <3>2. CASE u # t
      BY <1>0, <1>3, <3>2 DEF CallsOK, HoldsOK, Loops
    <3> QED
      BY <3>1, <3>2
  <2>2. ASSUME NEW u \in Callers, NEW v \in Callers, u # v PROVE Apart(u, v)'
    BY <1>0, <1>2, <1>3, <2>2 DEF CallsOK, Apart, Loops
  <2> QED
    BY <2>1, <2>2 DEF CallsOK
<1>6. SerialsOK'
  BY <1>0, <1>2, <1>3 DEF SerialsOK, Loops
<1>7. ASSUME NEW k \in live PROVE ArrivedOK(k)'
  <2>1. k \in Listeners /\ ArrivedOK(k) /\ Arrived(k)' = Arrived(k)
    BY <1>1, <1>3 DEF NotifyBody, Arrived, Serials
  <2>2. \A u \in Callers : Waits(u, k)' => Waits(u, k) /\ call'[u].serial = call[u].serial
    BY <1>0, <1>2, <1>3 DEF Waits
  <2>3. EventArea \notin areas[k] => expected[k] = {}
    BY <2>1 DEF ArrivedOK
  <2>4. \A u \in Callers : Waits(u, k) /\ expected[k] # {} =>
                              Waits(u, k)' /\ call'[u].serial = call[u].serial
    BY <1>0, <1>2, <1>3, <2>3 DEF Waits
  <2> QED
    BY <1>3, <2>1, <2>2, <2>4, KeepArrived
<1>8. \A k \in Listeners \ live : NewListener(k)'
  BY <1>3 DEF NotifyBody, NewListener
<1> QED
  BY <1>3, <1>4, <1>5, <1>6, <1>7, <1>8 DEF NotifyBody

(* A loop brings its event to a listener, which had not got it, after all  *)
(* that the same thread raised before.                                     *)
LEMMA AppendNotificationStep ==
    ASSUME NotifyBody, NEW t \in Callers, AppendNotification(t)
    PROVE  NotifyBody'
<1>0. NotifyTypeOK /\ CallsOK /\ SerialsOK /\ HoldsOK(t) /\ call[t].op = "append"
  BY DEF NotifyBody, AppendNotification, CallsOK
<1>1. PICK l \in live \ call[t].left :
        /\ l = call[t].listener /\ EventArea \in areas[l] /\ l \in Listeners
        /\ call[t].serial \in Nat \ {0} /\ call[t].left \subseteq Listeners /\ call[t].params \in Params
  <2>1. call[t] \in AppendCall /\ live \subseteq Listeners
    BY <1>0, CallFields DEF NotifyTypeOK
  <2> QED
    BY <1>0, <2>1 DEF AppendCall, HoldsOK
<1>2. PICK r \in CallType :
        r = [op |-> "event", serial |-> call[t].serial, left |-> call[t].left, params |-> call[t].params]
  BY <1>1 DEF CallType, EventCall
<1>3. r.op = "event" /\ r.left = call[t].left /\ r.serial = call[t].serial
  BY <1>2
<1>4. PICK event \in Event : event = [id |-> EventId, serial |-> call[t].serial]
  BY <1>1 DEF Event
<1>5. /\ UNCHANGED <<live, areas, raised, expected, received>>
      /\ notifications' = [notifications EXCEPT ![l] = Append(@, event)]
  BY <1>1, <1>4 DEF AppendNotification
<1>6. /\ call' \in [Callers -> CallType] /\ call'[t] = r
      /\ \A u \in Callers \ {t} : call'[u] = call[u]
  BY <1>0, <1>2, NewCall DEF NotifyTypeOK, AppendNotification
<1>7. /\ notifications[l] \in Seq(Event) /\ received[l] \in Seq(Nat \ {0})
      /\ notifications'[l] = Append(notifications[l], event)
      /\ \A k \in Listeners \ {l} : notifications'[k] = notifications[k]
  BY <1>0, <1>1, <1>5 DEF NotifyTypeOK
<1>8. NotifyTypeOK'
  <2>1. Append(notifications[l], event) \in Seq(Event)
    BY <1>7
  <2> QED
    BY <1>0, <1>5, <1>6, <2>1 DEF NotifyTypeOK
<1>9. CallsOK'
  <2>1. ASSUME NEW u \in Callers PROVE HoldsOK(u)'
    <3>1. CASE u = t
      BY <1>0, <1>3, <1>5, <1>6, <3>1 DEF HoldsOK, Loops
    <3>2. CASE u # t
      BY <1>0, <1>5, <1>6, <3>2 DEF CallsOK, HoldsOK, Loops
    <3> QED
      BY <3>1, <3>2
  <2>2. ASSUME NEW u \in Callers, NEW v \in Callers, u # v PROVE Apart(u, v)'
    BY <1>0, <1>3, <1>6, <2>2 DEF CallsOK, Apart, Loops
  <2> QED
    BY <2>1, <2>2 DEF CallsOK
<1>10. SerialsOK'
  BY <1>0, <1>3, <1>5, <1>6 DEF SerialsOK, Loops
<1>11. ASSUME NEW k \in live PROVE ArrivedOK(k)'
  <2>1. k \in Listeners /\ ArrivedOK(k)
    BY <1>0 DEF NotifyBody, NotifyTypeOK
  <2>2. CASE k # l
    <3>1. Arrived(k)' = Arrived(k)
      BY <1>5, <1>7, <2>1, <2>2, SMTT(20) DEF Arrived, Serials
    <3>2. \A u \in Callers : /\ Waits(u, k)' <=> Waits(u, k)
                             /\ Waits(u, k) => call'[u].serial = call[u].serial
      BY <1>0, <1>1, <1>3, <1>6, <2>2 DEF Waits
    <3> QED
      BY <1>5, <2>1, <3>1, <3>2, KeepArrived
  <2>3. CASE k = l
    <3>1. Arrived(l)' = Append(Arrived(l), call[t].serial)
      <4>1. event.serial = call[t].serial
        BY <1>4
      <4> QED
        <5>1. received[l] \o Serials(Append(notifications[l], event))
                = Append(received[l] \o Serials(notifications[l]), event.serial)
          BY <1>7, SerialsOfAppend
        <5> QED
          BY <1>5, <1>7, <4>1, <5>1 DEF Arrived
    <3>2. Waits(t, l) /\ ~Waits(t, l)'
      BY <1>0, <1>1, <1>3, <1>6 DEF Waits
    <3>3. Arrived(l) \in Seq(Nat \ {0}) /\ Len(raised) \in Nat /\ call[t].serial \in Nat
      BY <1>0, <1>1, ArrivedType DEF NotifyTypeOK
    <3> QED
      BY <1>0, <1>1, <1>5, <1>6, <2>1, <2>3, <3>1, <3>2, <3>3, AppendArrived
  <2> QED
    BY <2>2, <2>3
<1>12. \A k \in Listeners \ live : NewListener(k)'
  BY <1>1, <1>5, <1>7 DEF NotifyBody, NewListener
<1> QED
  BY <1>5, <1>8, <1>9, <1>10, <1>11, <1>12 DEF NotifyBody

(* A call that reads from a listener.                                      *)
LEMMA BeginGetNextStep ==
    ASSUME NotifyBody, NEW t \in Callers, NEW l \in Listeners, NEW filter \in Filters,
           BeginGetNext(t, l, filter)
    PROVE  NotifyBody'
<1>0. /\ NotifyTypeOK /\ CallsOK /\ call[t].op = "none" /\ l \in live
      /\ \A u \in Callers : call[u].op \in {"areas", "erase"} => call[u].listener # l
  BY DEF NotifyBody, BeginGetNext, Idle
<1>1. PICK r \in CallType : r = [op |-> "get", listener |-> l, filter |-> filter]
  BY DEF CallType, GetCall
<1>2. r.op = "get" /\ r.listener = l
  BY <1>1
<1>3. /\ UNCHANGED <<live, areas, notifications, raised, expected, received>>
      /\ call' \in [Callers -> CallType] /\ call'[t] = r
      /\ \A u \in Callers \ {t} : call'[u] = call[u]
  BY <1>0, <1>1, NewCall DEF NotifyTypeOK, BeginGetNext
<1>4. NotifyTypeOK'
  BY <1>0, <1>3 DEF NotifyTypeOK
<1>5. CallsOK'
  <2>1. ASSUME NEW u \in Callers PROVE HoldsOK(u)'
    BY <1>0, <1>2, <1>3 DEF CallsOK, HoldsOK, Loops
  <2>2. ASSUME NEW u \in Callers \ {t} PROVE Apart(u, t)' /\ Apart(t, u)'
    BY <1>0, <1>2, <1>3 DEF CallsOK, HoldsOK, Apart, Loops
  <2>3. ASSUME NEW u \in Callers \ {t}, NEW v \in Callers \ {t}, u # v PROVE Apart(u, v)'
    BY <1>0, <1>3, <2>3 DEF CallsOK, Apart, Loops
  <2> QED
    BY <2>1, <2>2, <2>3 DEF CallsOK
<1>6. SerialsOK' /\ \A k \in live : ArrivedOK(k)'
  BY <1>0, <1>2, <1>3, QuietStep DEF Loops
<1>7. \A k \in Listeners \ live : NewListener(k)'
  BY <1>3 DEF NotifyBody, NewListener
<1> QED
  BY <1>3, <1>4, <1>5, <1>6, <1>7 DEF NotifyBody

(* A read takes the first event, or the first that the filter names: as the *)
(* events raised all have one number, that is the head of the queue.       *)
LEMMA XNotifyGetNextStep ==
    ASSUME NotifyBody, NEW t \in Callers, XNotifyGetNext(t)
    PROVE  NotifyBody'
<1>0. NotifyTypeOK /\ CallsOK /\ SerialsOK /\ HoldsOK(t) /\ call[t].op = "get"
  BY DEF NotifyBody, XNotifyGetNext, CallsOK
<1>1. PICK l \in live : l = call[t].listener /\ l \in Listeners
  BY <1>0 DEF HoldsOK, NotifyTypeOK
<1>2. Idle \in CallType /\ Idle.op = "none"
  BY DEF CallType, Idle
<1>3. /\ UNCHANGED <<live, areas, raised, expected>>
      /\ call' \in [Callers -> CallType] /\ call'[t] = Idle
      /\ \A u \in Callers \ {t} : call'[u] = call[u]
  BY <1>0, <1>2, NewCall DEF NotifyTypeOK, XNotifyGetNext
<1>4. notifications[l] \in Seq(Event) /\ received[l] \in Seq(Nat \ {0})
  BY <1>0, <1>1 DEF NotifyTypeOK
<1>5. \/ UNCHANGED <<notifications, received>>
      \/ /\ notifications[l] # <<>>
         /\ notifications' = [notifications EXCEPT ![l] = RemoveAt(@, 1)]
         /\ received' = [received EXCEPT ![l] = Append(@, notifications[l][1].serial)]
  <2> DEFINE i == FirstWith(notifications[l], call[t].filter)
  <2>1. i = 0 \/ (i = 1 /\ notifications[l] # <<>>)
    BY <1>4, FirstIsFirst
  <2>2. \/ i = 0 /\ UNCHANGED <<notifications, received>>
        \/ /\ i # 0
           /\ notifications' = [notifications EXCEPT ![l] = RemoveAt(@, i)]
           /\ received' = [received EXCEPT ![l] = Append(@, notifications[l][i].serial)]
    BY <1>1 DEF XNotifyGetNext
  <2> HIDE DEF i
  <2> QED
    BY <2>1, <2>2
<1>6. /\ notifications' \in [Listeners -> Seq(Event)] /\ received' \in [Listeners -> Seq(Nat \ {0})]
      /\ \A k \in Listeners : Arrived(k)' = Arrived(k)
      /\ \A k \in Listeners \ {l} : notifications'[k] = notifications[k] /\ received'[k] = received[k]
  <2>1. CASE UNCHANGED <<notifications, received>>
    BY <1>0, <2>1 DEF NotifyTypeOK, Arrived, Serials
  <2>2. CASE /\ notifications[l] # <<>>
             /\ notifications' = [notifications EXCEPT ![l] = RemoveAt(@, 1)]
             /\ received' = [received EXCEPT ![l] = Append(@, notifications[l][1].serial)]
    <3>1. /\ RemoveAt(notifications[l], 1) \in Seq(Event)
          /\ Append(received[l], notifications[l][1].serial) \o Serials(RemoveAt(notifications[l], 1))
               = Arrived(l)
      BY <1>4, <2>2, SerialsOfRest DEF Arrived
    <3>2. notifications[l][1].serial \in Nat \ {0}
      <4>1. notifications[l][1] \in Event
        BY <1>4, <2>2, EmptySeq, ElementOfSeq
      <4> QED
        BY <4>1 DEF Event
    <3>3. Append(received[l], notifications[l][1].serial) \in Seq(Nat \ {0})
      BY <1>4, <3>2
    <3>4. /\ notifications' \in [Listeners -> Seq(Event)] /\ received' \in [Listeners -> Seq(Nat \ {0})]
          /\ notifications'[l] = RemoveAt(notifications[l], 1)
          /\ received'[l] = Append(received[l], notifications[l][1].serial)
          /\ \A k \in Listeners \ {l} : notifications'[k] = notifications[k] /\ received'[k] = received[k]
      BY <1>0, <1>1, <2>2, <3>1, <3>3 DEF NotifyTypeOK
    <3>5. Arrived(l)' = Arrived(l)
      BY <3>1, <3>4 DEF Arrived
    <3>6. ASSUME NEW k \in Listeners \ {l} PROVE Arrived(k)' = Arrived(k)
      BY <3>4 DEF Arrived, Serials
    <3> QED
      BY <3>4, <3>5, <3>6
  <2> QED
    BY <1>5, <2>1, <2>2
<1>7. NotifyTypeOK'
  BY <1>0, <1>3, <1>6 DEF NotifyTypeOK
<1>8. CallsOK'
  <2>1. ASSUME NEW u \in Callers PROVE HoldsOK(u)'
    BY <1>0, <1>2, <1>3 DEF CallsOK, HoldsOK, Loops
  <2>2. ASSUME NEW u \in Callers, NEW v \in Callers, u # v PROVE Apart(u, v)'
    BY <1>0, <1>2, <1>3, <2>2 DEF CallsOK, Apart, Loops
  <2> QED
    BY <2>1, <2>2 DEF CallsOK
<1>9. SerialsOK'
  BY <1>0, <1>2, <1>3 DEF SerialsOK, Loops
<1>10. ASSUME NEW k \in live PROVE ArrivedOK(k)'
  <2>1. k \in Listeners /\ ArrivedOK(k)
    BY <1>0 DEF NotifyBody, NotifyTypeOK
  <2>2. \A u \in Callers : /\ Waits(u, k)' <=> Waits(u, k)
                           /\ Waits(u, k) => call'[u].serial = call[u].serial
    BY <1>0, <1>2, <1>3 DEF Waits
  <2> QED
    BY <1>3, <1>6, <2>1, <2>2, KeepArrived
<1>11. \A k \in Listeners \ live : NewListener(k)'
  BY <1>1, <1>3, <1>6 DEF NotifyBody, NewListener
<1> QED
  BY <1>3, <1>7, <1>8, <1>9, <1>10, <1>11 DEF NotifyBody

(* Every step keeps the invariant, or is a data race.                      *)
LEMMA NextNotifyInv == NotifyInv /\ [NotifyNext]_notifyVars => NotifyInv'
<1> SUFFICES ASSUME NotifyInv, [NotifyNext]_notifyVars, ~raced' PROVE NotifyBody'
  BY DEF NotifyInv
<1>1. CASE UNCHANGED notifyVars
  <2>1. NotifyBody
    BY <1>1 DEF NotifyInv, notifyVars
  <2> QED
    <3>1. UNCHANGED <<live, areas, notifications, call, raised, expected, received>>
      BY <1>1 DEF notifyVars
    <3>2. NotifyTypeOK' /\ CallsOK' /\ SerialsOK'
      BY <2>1, <3>1 DEF NotifyBody, NotifyTypeOK, CallsOK, HoldsOK, Apart, SerialsOK, Loops
    <3>3. ASSUME NEW l \in live PROVE ArrivedOK(l)'
      <4>1. l \in Listeners /\ ArrivedOK(l) /\ Arrived(l)' = Arrived(l)
        BY <2>1, <3>1 DEF NotifyBody, NotifyTypeOK, Arrived, Serials
      <4>2. \A u \in Callers : Waits(u, l)' <=> Waits(u, l)
        BY <3>1 DEF Waits
      <4> QED
        BY <3>1, <4>1, <4>2, KeepArrived
    <3>4. \A l \in Listeners \ live : NewListener(l)'
      BY <2>1, <3>1 DEF NotifyBody, NewListener
    <3> QED
      BY <3>1, <3>2, <3>3, <3>4 DEF NotifyBody
<1>2. ASSUME NotifyNext PROVE NotifyBody'
  <2>0. NotifyBody
    BY <1>2 DEF NotifyInv, NotifyNext
  <2>1. PICK t \in Callers :
         \/ NotifyStep(t)
         \/ \E mask \in AreaMasks : BeginCreate(t, mask)
         \/ XamShowDeviceSelectorUI(t) \/ XamShowMessageBoxUI(t)
         \/ \E l \in Listeners :
              \/ BeginClose(t, l)
              \/ \E filter \in Filters : BeginGetNext(t, l, filter)
    BY <1>2 DEF NotifyNext
  <2>2. CASE XamShowDeviceSelectorUI(t) \/ XamShowMessageBoxUI(t)
    <3>1. <<1, 0>> \in Params /\ <<0>> \in Params
      BY DEF Params
    <3> QED
      BY <2>0, <2>2, <3>1, BeginEventStep DEF XamShowDeviceSelectorUI, XamShowMessageBoxUI
  <2>3. CASE NextEvent(t)
    <3>1. call[t].op = "event" /\ call[t].left = {} /\ Len(call[t].params) > 1
          /\ BeginEvent(t, Tail(call[t].params))
      BY <2>3 DEF NextEvent
    <3>2. call[t].params \in Params
      <4>1. call[t] \in EventCall
        BY <2>0, <3>1, CallFields DEF NotifyBody, NotifyTypeOK
      <4> QED
        BY <4>1 DEF EventCall
    <3>3. Tail(call[t].params) = <<0>>
      <4>1. <<1, 0>> \in Seq({0, 1}) /\ <<1, 0>> # <<>> /\ Len(<<1, 0>>) = 2 /\ <<1, 0>>[2] = 0
        OBVIOUS
      <4>2. /\ Tail(<<1, 0>>) \in Seq({0, 1}) /\ Len(Tail(<<1, 0>>)) = 1
            /\ \A i \in 1 .. 1 : Tail(<<1, 0>>)[i] = <<1, 0>>[i + 1]
        BY <4>1, HeadTailProperties
      <4>3. <<0>> \in Seq({0, 1}) /\ Len(<<0>>) = 1 /\ \A i \in 1 .. 1 : <<0>>[i] = 0
        OBVIOUS
      <4>4. \A i \in 1 .. 1 : Tail(<<1, 0>>)[i] = <<0>>[i]
        BY <4>1, <4>2, <4>3
      <4>5. Tail(<<1, 0>>) = <<0>>
        BY <4>2, <4>3, <4>4, SeqEqual
      <4>6. ASSUME call[t].params = Tail(<<1, 0>>) PROVE FALSE
        <5>1. Len(call[t].params) = 1
          BY <4>2, <4>6, Zenon
        <5> QED
          BY <3>1, <5>1
      <4>7. call[t].params = <<1, 0>>
        BY <3>2, <4>5, <4>6, Zenon DEF Params
      <4> QED
        BY <4>5, <4>7, Zenon
    <3>4. <<0>> \in Params
      BY DEF Params
    <3> QED
      BY <2>0, <3>1, <3>3, <3>4, BeginEventStep
  <2>4. CASE NotifyStep(t) /\ ~NextEvent(t)
    BY <2>0, <2>4, InsertListenerStep, SetAreasStep, EraseListenerStep, VisitStep,
       AppendNotificationStep, ReturnFromEventStep, XNotifyGetNextStep DEF NotifyStep
  <2> QED
    BY <2>0, <2>1, <2>2, <2>3, <2>4, BeginCreateStep, BeginCloseStep, BeginGetNextStep
<1> QED
  BY <1>1, <1>2

(* As long as no data race has happened: a listener of the area gets every *)
(* event raised since its areas were set, once, and those of one thread in *)
(* the order in which they were raised, whatever is read between, and a    *)
(* listener that has no area gets none.                                    *)
THEOREM NotificationsArrive == NotifySpec => []EventsArriveOnceInOrder
<1>1. NotifyInv => EventsArriveOnceInOrder
  <2> SUFFICES ASSUME NotifyBody, NEW l \in live
               PROVE  /\ IsInjective(Arrived(l))
                      /\ expected[l] \ OnTheWay(l) \subseteq Range(Arrived(l))
                      /\ EventArea \notin areas[l] => Arrived(l) = <<>>
                      /\ \A i, j \in 1 .. Len(Arrived(l)) :
                           i < j /\ raised[Arrived(l)[i]].caller = raised[Arrived(l)[j]].caller
                             => Arrived(l)[i] < Arrived(l)[j]
    BY DEF NotifyInv, EventsArriveOnceInOrder, Arrived, Serials
  <2>1. ArrivedOK(l) /\ Arrived(l) \in Seq(Nat \ {0})
    BY ArrivedType DEF NotifyBody, NotifyTypeOK
  <2>2. DOMAIN Arrived(l) = 1 .. Len(Arrived(l))
    BY <2>1
  <2>3. IsInjective(Arrived(l))
    BY <2>1, <2>2 DEF ArrivedOK, IsInjective
  <2> QED
    BY <2>1, <2>3, SMTT(20) DEF ArrivedOK
<1> QED
  BY <1>1, InitNotifyInv, NextNotifyInv, PTL DEF NotifySpec

-----------------------------------------------------------------------------
(* The states of a pipeline.                                               *)
FilterStates == {"MAGFILTER", "MINFILTER", "MIPFILTER"}
SamplerFields == {"Filter", "ADDRESSU", "ADDRESSV", "ADDRESSW", "BORDERCOLOR", "MIPMAPLODBIAS",
                  "MAXMIPLEVEL", "MAXANISOTROPY", "MINMIPLEVEL"}

(* Which fields there are: those of the pass under the name of the field,  *)
(* never under that of a parameter that has another field or none.         *)
FieldsOK ==
    \A key \in DOMAIN pipeline :
      /\ key = <<key[1], key[2]>>
      /\ key[1] \in 0 .. 15 => key[2] \in SamplerFields
      /\ key[1] \notin 0 .. 15 =>
           /\ key[1] = Pass
           /\ key[2] \notin Ignored \cup {"Filter", "TWOSIDEDSTENCILMODE", "ALPHABLENDENABLE"}

(* A sampler's field of filters has the three that were asked for, also    *)
(* before the first one was.                                               *)
FiltersOK ==
    \A sampler \in 0 .. 15 :
      FilterOf(sampler) = Encode(Asked(sampler, "MINFILTER"), Asked(sampler, "MAGFILTER"),
                                 Asked(sampler, "MIPFILTER"))

(* What a field that is not one of filters has, and where it is from.      *)
FieldType(name) == IF name = "AlphaToCoverageEnable" THEN "ALPHABLENDENABLE" ELSE name
Writers(place, name) ==
    {<<place, FieldType(name)>>} \cup
    IF FieldType(name) = "STENCILENABLE" THEN {<<Pass, "TWOSIDEDSTENCILMODE">>} ELSE {}
Holds(place, name, value, asked) ==
    IF place = Pass THEN value = RenderValue(FieldType(name), asked)
    ELSE IF FieldType(name) \in {"ADDRESSU", "ADDRESSV", "ADDRESSW"} THEN value \in to_texture_addr(asked)
    ELSE value = asked
ValuesOK ==
    \A key \in DOMAIN pipeline :
      key[2] # "Filter" =>
        \E source \in Writers(key[1], key[2]) \cap DOMAIN latest :
          Holds(key[1], key[2], pipeline[key], latest[source])

NothingIsLost ==
    \A asked \in DOMAIN latest :
      asked[1] = Pass /\ asked[2] \notin Ignored => <<Pass, RenderField(asked[2])>> \in DOMAIN pipeline

PipelineInv == FieldsOK /\ FiltersOK /\ ValuesOK /\ NothingIsLost

-----------------------------------------------------------------------------
(* Each filter has bits of its own in the number.                          *)
LEMMA DecodeEncode ==
    ASSUME NEW min \in {0, 1}, NEW mag \in {0, 1}, NEW mip \in {0, 1}
    PROVE  /\ DecodeMin(Encode(min, mag, mip)) = min
           /\ DecodeMag(Encode(min, mag, mip)) = mag
           /\ DecodeMip(Encode(min, mag, mip)) = mip
BY DEF DecodeMin, DecodeMag, DecodeMip, Encode

LEMMA FilterTypes == \A value : to_filter_type(value) \in {0, 1}
BY DEF to_filter_type

LEMMA AskedTypes == \A sampler, type : Asked(sampler, type) \in {0, 1}
BY FilterTypes, Zenon DEF Asked

(* Both parameters that enable the stencil test are read in one way.       *)
LEMMA FieldValues ==
    ASSUME NEW type, NEW value, type \notin Ignored \cup {"Filter", "AlphaToCoverageEnable"}
    PROVE  /\ RenderValue(FieldType(RenderField(type)), value) = RenderValue(type, value)
           /\ <<Pass, type>> \in Writers(Pass, RenderField(type))
           /\ RenderField(type) \notin Ignored \cup {"Filter", "TWOSIDEDSTENCILMODE", "ALPHABLENDENABLE"}
<1>1. CASE type = "TWOSIDEDSTENCILMODE"
  <2>1. RenderField(type) = "STENCILENABLE"
    BY <1>1 DEF RenderField
  <2>2. RenderValue("STENCILENABLE", value) = RenderValue("TWOSIDEDSTENCILMODE", value)
    BY DEF RenderValue
  <2>3. FieldType("STENCILENABLE") = "STENCILENABLE"
    BY DEF FieldType
  <2>4. <<Pass, type>> \in Writers(Pass, RenderField(type))
    BY <1>1, <2>1, <2>3 DEF Writers
  <2> QED
    BY <1>1, <2>1, <2>2, <2>3, <2>4 DEF Ignored
<1>2. CASE type = "ALPHABLENDENABLE"
  <2>1. RenderField(type) = "AlphaToCoverageEnable" /\ FieldType(RenderField(type)) = type
    BY <1>2 DEF RenderField, FieldType
  <2>2. <<Pass, type>> \in Writers(Pass, RenderField(type))
    BY <2>1 DEF Writers
  <2> QED
    BY <2>1, <2>2 DEF Ignored
<1>3. CASE type \notin {"TWOSIDEDSTENCILMODE", "ALPHABLENDENABLE"}
  <2>1. RenderField(type) = type /\ FieldType(type) = type
    BY <1>3 DEF RenderField, FieldType
  <2>2. <<Pass, type>> \in Writers(Pass, RenderField(type))
    BY <2>1 DEF Writers
  <2> QED
    BY <1>3, <2>1, <2>2
<1> QED
  BY <1>1, <1>2, <1>3

(* A type that some field has among its writers has that field.            *)
LEMMA WritersWrite ==
    ASSUME NEW type, NEW name, <<Pass, type>> \in Writers(Pass, name),
           name \notin Ignored \cup {"Filter", "TWOSIDEDSTENCILMODE", "ALPHABLENDENABLE"}
    PROVE  type \notin Ignored /\ RenderField(type) = name
<1>1. CASE name = "AlphaToCoverageEnable"
  <2>1. type = "ALPHABLENDENABLE"
    BY <1>1 DEF Writers, FieldType
  <2> QED
    BY <1>1, <2>1 DEF RenderField, Ignored
<1>2. CASE name = "STENCILENABLE"
  <2>1. type \in {"STENCILENABLE", "TWOSIDEDSTENCILMODE"}
    BY <1>2 DEF Writers, FieldType
  <2> QED
    BY <1>2, <2>1 DEF RenderField, Ignored
<1>3. CASE name \notin {"AlphaToCoverageEnable", "STENCILENABLE"}
  <2>1. type = name
    BY <1>3 DEF Writers, FieldType
  <2> QED
    BY <1>3, <2>1 DEF RenderField, Ignored
<1> QED
  BY <1>1, <1>2, <1>3

LEMMA InitPipelineInv == PipelineInit => PipelineInv
<1> SUFFICES ASSUME PipelineInit PROVE PipelineInv
  OBVIOUS
<1>1. DOMAIN pipeline = {} /\ DOMAIN latest = {}
  BY DEF PipelineInit
<1>2. \A sampler, type : FilterOf(sampler) = 0 /\ Asked(sampler, type) = 0
  BY <1>1, Zenon DEF FilterOf, Asked
<1>3. Encode(0, 0, 0) = 0
  BY DEF Encode
<1>4. FiltersOK
  BY <1>2, <1>3, Zenon DEF FiltersOK
<1> QED
  BY <1>1, <1>4, Zenon DEF PipelineInv, FieldsOK, ValuesOK, NothingIsLost

(* A parameter of the pass: no sampler has another value asked for, and a  *)
(* field that the parameter does not write has no writer of its type.      *)
LEMMA RenderKeepsPipelineInv ==
    ASSUME PipelineInv, NEW type, NEW value, ReadRenderState(type, value),
           type \notin {"Filter", "AlphaToCoverageEnable"}
    PROVE  PipelineInv'
<1> DEFINE field == <<Pass, RenderField(type)>>
<1>1. latest' = Put(latest, <<Pass, type>>, value)
  BY DEF ReadRenderState
<1>2. /\ type \in Ignored => pipeline' = pipeline
      /\ type \notin Ignored => pipeline' = Put(pipeline, field, RenderValue(type, value))
  BY DEF ReadRenderState
<1>3. /\ DOMAIN latest' = {<<Pass, type>>} \cup DOMAIN latest
      /\ latest'[<<Pass, type>>] = value
      /\ \A source \in DOMAIN latest : source # <<Pass, type>> => latest'[source] = latest[source]
  BY <1>1, SMT DEF Put
<1>4. ASSUME type \notin Ignored
      PROVE  /\ DOMAIN pipeline' = {field} \cup DOMAIN pipeline
             /\ pipeline'[field] = RenderValue(type, value)
             /\ \A key \in DOMAIN pipeline : key # field => pipeline'[key] = pipeline[key]
  <2> DEFINE new == RenderValue(type, value)
  <2>1. pipeline' = Put(pipeline, field, new)
    BY <1>2, <1>4
  <2> HIDE DEF field, new
  <2>2. /\ DOMAIN pipeline' = {field} \cup DOMAIN pipeline
        /\ pipeline'[field] = new
        /\ \A key \in DOMAIN pipeline : key # field => pipeline'[key] = pipeline[key]
    BY <2>1, SMT DEF Put
  <2> QED
    BY <2>2 DEF new
<1>5. type \notin Ignored =>
        /\ RenderValue(FieldType(RenderField(type)), value) = RenderValue(type, value)
        /\ <<Pass, type>> \in Writers(Pass, RenderField(type))
        /\ RenderField(type) \notin Ignored \cup {"Filter", "TWOSIDEDSTENCILMODE", "ALPHABLENDENABLE"}
  BY FieldValues, Zenon
<1>6. field[1] = Pass /\ field[2] = RenderField(type) /\ Pass \notin 0 .. 15
  BY DEF Pass
<1>7. DOMAIN pipeline \subseteq DOMAIN pipeline' /\ DOMAIN pipeline' \subseteq {field} \cup DOMAIN pipeline
  BY <1>2, <1>4, Zenon
<1>8. FieldsOK'
  <2> SUFFICES ASSUME NEW key \in DOMAIN pipeline'
               PROVE  /\ key = <<key[1], key[2]>>
                      /\ key[1] \in 0 .. 15 => key[2] \in SamplerFields
                      /\ key[1] \notin 0 .. 15 =>
                           /\ key[1] = Pass
                           /\ key[2] \notin Ignored \cup {"Filter", "TWOSIDEDSTENCILMODE", "ALPHABLENDENABLE"}
    BY Zenon DEF FieldsOK
  <2>1. CASE key \in DOMAIN pipeline
    BY <2>1, Zenon DEF PipelineInv, FieldsOK
  <2>2. CASE key \notin DOMAIN pipeline
    <3>1. key = field /\ type \notin Ignored
      BY <1>2, <1>4, <2>2, Zenon
    <3> QED
      BY <1>5, <1>6, <3>1, Zenon
  <2> QED
    BY <2>1, <2>2
<1>9. \A asked : \A sampler \in 0 .. 15 : Asked(sampler, asked)' = Asked(sampler, asked)
  <2> SUFFICES ASSUME NEW sampler \in 0 .. 15, NEW asked
               PROVE  Asked(sampler, asked)' = Asked(sampler, asked)
    BY Zenon
  <2>1. <<sampler, asked>> # <<Pass, type>>
    BY DEF Pass
  <2> QED
    BY <1>3, <2>1, Zenon DEF Asked
<1>10. \A sampler \in 0 .. 15 : FilterOf(sampler)' = FilterOf(sampler)
  <2> SUFFICES ASSUME NEW sampler \in 0 .. 15
               PROVE  FilterOf(sampler)' = FilterOf(sampler)
    BY Zenon
  <2>1. <<sampler, "Filter">> # field
    BY DEF Pass
  <2> QED
    BY <1>2, <1>4, <2>1, Zenon DEF FilterOf
<1>11. FiltersOK'
  BY <1>9, <1>10, Zenon DEF PipelineInv, FiltersOK
<1>12. ValuesOK'
  <2> SUFFICES ASSUME NEW key \in DOMAIN pipeline', key[2] # "Filter"
               PROVE  \E source \in Writers(key[1], key[2]) \cap DOMAIN latest' :
                        Holds(key[1], key[2], pipeline'[key], latest'[source])
    BY Zenon DEF ValuesOK
  <2>1. CASE key = field /\ type \notin Ignored
    <3>1. Holds(Pass, RenderField(type), pipeline'[field], value)
      BY <1>4, <1>5, <2>1, Zenon DEF Holds
    <3> QED
      BY <1>3, <1>5, <1>6, <2>1, <3>1, Zenon
  <2>2. CASE ~(key = field /\ type \notin Ignored)
    <3>1. key \in DOMAIN pipeline /\ pipeline'[key] = pipeline[key]
      BY <1>2, <1>4, <2>2, Zenon
    <3>2. PICK source \in Writers(key[1], key[2]) \cap DOMAIN latest :
             Holds(key[1], key[2], pipeline[key], latest[source])
      BY <3>1, Zenon DEF PipelineInv, ValuesOK
    <3>3. source # <<Pass, type>>
      <4> SUFFICES ASSUME source = <<Pass, type>> PROVE FALSE
        OBVIOUS
      <4>1. key[1] = Pass
        <5>1. source[1] \in {key[1], Pass} /\ (source[1] # key[1] => FieldType(key[2]) = "STENCILENABLE")
          BY <3>2 DEF Writers
        <5>2. CASE key[1] \in 0 .. 15
          <6>1. key[2] \in SamplerFields
            BY <3>1, <5>2, Zenon DEF PipelineInv, FieldsOK
          <6>2. FieldType(key[2]) # "STENCILENABLE"
            BY <6>1 DEF SamplerFields, FieldType
          <6> QED
            BY <1>6, <5>1, <5>2, <6>2 DEF Pass
        <5>3. CASE key[1] \notin 0 .. 15
          BY <3>1, <5>3, Zenon DEF PipelineInv, FieldsOK
        <5> QED
          BY <5>2, <5>3
      <4>2. key[2] \notin Ignored \cup {"Filter", "TWOSIDEDSTENCILMODE", "ALPHABLENDENABLE"}
            /\ key = <<key[1], key[2]>>
        BY <1>6, <3>1, <4>1, Zenon DEF PipelineInv, FieldsOK
      <4>3. type \notin Ignored /\ RenderField(type) = key[2]
        BY <3>2, <4>1, <4>2, WritersWrite, Zenon
      <4> QED
        BY <2>2, <4>1, <4>2, <4>3, Zenon
    <3>4. source \in DOMAIN latest' /\ latest'[source] = latest[source]
      BY <1>3, <3>2, <3>3, Zenon
    <3> QED
      BY <3>1, <3>2, <3>4, Zenon
  <2> QED
    BY <2>1, <2>2
<1>13. NothingIsLost'
  <2> SUFFICES ASSUME NEW asked \in DOMAIN latest', asked[1] = Pass, asked[2] \notin Ignored
               PROVE  <<Pass, RenderField(asked[2])>> \in DOMAIN pipeline'
    BY Zenon DEF NothingIsLost
  <2>1. CASE asked = <<Pass, type>>
    <3>1. asked[2] = type
      BY <2>1
    <3> QED
      BY <1>4, <3>1, Zenon
  <2>2. CASE asked # <<Pass, type>>
    BY <1>3, <1>7, <2>2, Zenon DEF PipelineInv, NothingIsLost
  <2> QED
    BY <2>1, <2>2
<1> QED
  BY <1>8, <1>11, <1>12, <1>13, Zenon DEF PipelineInv

-----------------------------------------------------------------------------
(* A parameter of a sampler: what it writes to its own field; every other  *)
(* one was there before and has its value from another parameter.          *)
SamplerWrites(sampler, type, value) ==
    \/ /\ type \in FilterStates
       /\ pipeline' = Put(pipeline, <<sampler, "Filter">>,
                          WithFilter(FilterOf(sampler), type, to_filter_type(value)))
    \/ /\ type \in SamplerFields \ {"Filter"}
       /\ \E mode : /\ pipeline' = Put(pipeline, <<sampler, type>>, mode)
                    /\ Holds(sampler, type, mode, value)
    \/ /\ type \notin FilterStates \cup SamplerFields
       /\ pipeline' = pipeline

LEMMA SamplerCases ==
    ASSUME NEW sampler \in 0 .. 15, NEW type, NEW value, ReadSamplerState(sampler, type, value)
    PROVE  SamplerWrites(sampler, type, value)
<1>0. sampler # Pass
  BY DEF Pass
<1>1. CASE type \in FilterStates
  BY <1>1 DEF ReadSamplerState, SamplerWrites, FilterStates
<1>2. CASE type \in {"ADDRESSU", "ADDRESSV", "ADDRESSW"}
  <2>1. PICK mode \in to_texture_addr(value) : pipeline' = Put(pipeline, <<sampler, type>>, mode)
    BY <1>2 DEF ReadSamplerState
  <2>2. FieldType(type) = type
    BY <1>2 DEF FieldType
  <2>3. Holds(sampler, type, mode, value)
    BY <1>0, <1>2, <2>2, Zenon DEF Holds
  <2>4. type \in SamplerFields \ {"Filter"}
    BY <1>2 DEF SamplerFields
  <2> QED
    BY <2>1, <2>3, <2>4, Zenon DEF SamplerWrites
<1>3. CASE type \in {"BORDERCOLOR", "MIPMAPLODBIAS", "MAXMIPLEVEL", "MAXANISOTROPY", "MINMIPLEVEL"}
  <2>1. pipeline' = Put(pipeline, <<sampler, type>>, value)
    BY <1>3 DEF ReadSamplerState
  <2>2. FieldType(type) = type /\ type \notin {"ADDRESSU", "ADDRESSV", "ADDRESSW"}
    BY <1>3 DEF FieldType
  <2>3. Holds(sampler, type, value, value)
    BY <1>0, <2>2, Zenon DEF Holds
  <2>4. type \in SamplerFields \ {"Filter"}
    BY <1>3 DEF SamplerFields
  <2> QED
    BY <2>1, <2>3, <2>4, Zenon DEF SamplerWrites
<1>4. CASE type \in {"MAGFILTERZ", "MINFILTERZ", "TRILINEARTHRESHOLD", "POINTBORDERENABLE"}
  <2>1. pipeline' = pipeline
    BY <1>4 DEF ReadSamplerState
  <2>2. type \notin FilterStates \cup SamplerFields
    BY <1>4 DEF FilterStates, SamplerFields
  <2> QED
    BY <2>1, <2>2, Zenon DEF SamplerWrites
<1> QED
  BY <1>1, <1>2, <1>3, <1>4 DEF ReadSamplerState, FilterStates

LEMMA FiltersAreApart ==
    ASSUME NEW min \in {0, 1}, NEW mag \in {0, 1}, NEW mip \in {0, 1}, NEW new \in {0, 1}
    PROVE  /\ WithFilter(Encode(min, mag, mip), "MINFILTER", new) = Encode(new, mag, mip)
           /\ WithFilter(Encode(min, mag, mip), "MAGFILTER", new) = Encode(min, new, mip)
           /\ WithFilter(Encode(min, mag, mip), "MIPFILTER", new) = Encode(min, mag, new)
BY DecodeEncode DEF WithFilter

LEMMA SamplerKeepsPipelineInv ==
    ASSUME PipelineInv, NEW sampler \in 0 .. 15, NEW type, NEW value,
           ReadSamplerState(sampler, type, value)
    PROVE  PipelineInv'
<1> DEFINE asks == <<sampler, type>>
           field == IF type \in FilterStates THEN <<sampler, "Filter">> ELSE asks
<1>1. latest' = Put(latest, asks, value)
  BY DEF ReadSamplerState
<1>2. /\ DOMAIN latest' = {asks} \cup DOMAIN latest
      /\ latest'[asks] = value
      /\ \A source \in DOMAIN latest : source # asks => latest'[source] = latest[source]
  BY <1>1, SMT DEF Put
<1>3. SamplerWrites(sampler, type, value)
  BY SamplerCases
<1>4. sampler # Pass /\ Pass \notin 0 .. 15 /\ asks[1] = sampler /\ asks[2] = type
  BY DEF Pass
<1>5. /\ type \notin FilterStates \cup SamplerFields => pipeline' = pipeline
      /\ type \in FilterStates \cup (SamplerFields \ {"Filter"}) =>
           /\ field[1] = sampler /\ field[2] \in SamplerFields /\ field = <<field[1], field[2]>>
           /\ DOMAIN pipeline' = {field} \cup DOMAIN pipeline
           /\ \A key \in DOMAIN pipeline : key # field => pipeline'[key] = pipeline[key]
      /\ type \in FilterStates => pipeline'[field] = WithFilter(FilterOf(sampler), type, to_filter_type(value))
      /\ type \in SamplerFields \ {"Filter"} => field = asks /\ Holds(sampler, type, pipeline'[field], value)
      /\ type # "Filter"
  <2>1. CASE type \in FilterStates
    <3>1. type \notin SamplerFields
      BY <2>1 DEF FilterStates, SamplerFields
    <3>2. pipeline' = Put(pipeline, field, WithFilter(FilterOf(sampler), type, to_filter_type(value)))
      BY <1>3, <2>1, <3>1, Zenon DEF SamplerWrites
    <3>3. field = <<sampler, "Filter">>
      BY <2>1
    <3>4. field[1] = sampler /\ field[2] \in SamplerFields /\ field = <<field[1], field[2]>>
      BY <3>3 DEF SamplerFields
    <3> DEFINE new == WithFilter(FilterOf(sampler), type, to_filter_type(value))
    <3> HIDE DEF field, new
    <3>5. /\ DOMAIN pipeline' = {field} \cup DOMAIN pipeline
          /\ \A key \in DOMAIN pipeline : key # field => pipeline'[key] = pipeline[key]
          /\ pipeline'[field] = new
      BY <3>2, SMT DEF Put, new
    <3>6. pipeline'[field] = WithFilter(FilterOf(sampler), type, to_filter_type(value))
      BY <3>5 DEF new
    <3> QED
      BY <2>1, <3>1, <3>4, <3>5, <3>6, Zenon DEF SamplerFields
  <2>2. CASE type \in SamplerFields \ {"Filter"}
    <3>1. type \notin FilterStates
      BY <2>2 DEF FilterStates, SamplerFields
    <3>2. PICK mode : pipeline' = Put(pipeline, asks, mode) /\ Holds(sampler, type, mode, value)
      BY <1>3, <2>2, <3>1, Zenon DEF SamplerWrites
    <3>3. field = asks
      BY <3>1
    <3>4. field[1] = sampler /\ field[2] \in SamplerFields /\ field = <<field[1], field[2]>>
      BY <2>2, <3>3
    <3> HIDE DEF field
    <3>5. /\ DOMAIN pipeline' = {field} \cup DOMAIN pipeline
          /\ \A key \in DOMAIN pipeline : key # field => pipeline'[key] = pipeline[key]
          /\ pipeline'[field] = mode
      BY <3>2, <3>3, SMT DEF Put
    <3> QED
      BY <2>2, <3>1, <3>2, <3>3, <3>4, <3>5, Zenon
  <2>3. CASE type \notin FilterStates \cup SamplerFields
    <3>1. pipeline' = pipeline
      BY <1>3, <2>3, Zenon DEF SamplerWrites
    <3> QED
      BY <2>3, <3>1, Zenon DEF SamplerFields
  <2>4. type # "Filter"
    BY <1>3 DEF SamplerWrites, FilterStates, SamplerFields
  <2> QED
    BY <2>1, <2>2, <2>3, <2>4, Zenon
<1> HIDE DEF asks, field
<1>6. DOMAIN pipeline \subseteq DOMAIN pipeline' /\ DOMAIN pipeline' \subseteq {field} \cup DOMAIN pipeline
  BY <1>5, Zenon
<1>7. FieldsOK'
  <2> SUFFICES ASSUME NEW key \in DOMAIN pipeline'
               PROVE  /\ key = <<key[1], key[2]>>
                      /\ key[1] \in 0 .. 15 => key[2] \in SamplerFields
                      /\ key[1] \notin 0 .. 15 =>
                           /\ key[1] = Pass
                           /\ key[2] \notin Ignored \cup {"Filter", "TWOSIDEDSTENCILMODE", "ALPHABLENDENABLE"}
    BY Zenon DEF FieldsOK
  <2>1. CASE key \in DOMAIN pipeline
    BY <2>1, Zenon DEF PipelineInv, FieldsOK
  <2>2. CASE key \notin DOMAIN pipeline
    BY <1>5, <2>2, Zenon
  <2> QED
    BY <2>1, <2>2
<1>8. \A x \in 0 .. 15 : \A t :
        Asked(x, t)' = IF <<x, t>> = asks THEN to_filter_type(value) ELSE Asked(x, t)
  BY <1>2, Zenon DEF Asked
<1>9. FiltersOK'
  <2> SUFFICES ASSUME NEW x \in 0 .. 15
               PROVE  FilterOf(x)' = Encode(Asked(x, "MINFILTER")', Asked(x, "MAGFILTER")', Asked(x, "MIPFILTER")')
    BY Zenon DEF FiltersOK
  <2>1. FilterOf(x) = Encode(Asked(x, "MINFILTER"), Asked(x, "MAGFILTER"), Asked(x, "MIPFILTER"))
    BY Zenon DEF PipelineInv, FiltersOK
  <2>2. CASE x = sampler /\ type \in FilterStates
    <3>1. field = <<x, "Filter">>
      BY <2>2 DEF field
    <3>2. FilterOf(x)' = WithFilter(FilterOf(x), type, to_filter_type(value))
      BY <1>5, <2>2, <3>1, Zenon DEF FilterOf
    <3>3. \A t \in FilterStates : Asked(x, t)' = IF t = type THEN to_filter_type(value) ELSE Asked(x, t)
      BY <1>8, <2>2, Zenon DEF asks
    <3> DEFINE min == Asked(x, "MINFILTER")
               mag == Asked(x, "MAGFILTER")
               mip == Asked(x, "MIPFILTER")
               new == to_filter_type(value)
    <3>4. min \in {0, 1} /\ mag \in {0, 1} /\ mip \in {0, 1} /\ new \in {0, 1}
      BY AskedTypes, FilterTypes, Zenon
    <3> HIDE DEF min, mag, mip, new
    <3>5. /\ WithFilter(Encode(min, mag, mip), "MINFILTER", new) = Encode(new, mag, mip)
          /\ WithFilter(Encode(min, mag, mip), "MAGFILTER", new) = Encode(min, new, mip)
          /\ WithFilter(Encode(min, mag, mip), "MIPFILTER", new) = Encode(min, mag, new)
      BY <3>4, FiltersAreApart, SMT
    <3>6. CASE type = "MINFILTER"
      <4>1. Asked(x, "MINFILTER")' = new /\ Asked(x, "MAGFILTER")' = mag /\ Asked(x, "MIPFILTER")' = mip
        BY <3>3, <3>6 DEF FilterStates, new, mag, mip
      <4> QED
        BY <2>1, <3>2, <3>5, <3>6, <4>1, Zenon DEF min, mag, mip, new
    <3>7. CASE type = "MAGFILTER"
      <4>1. Asked(x, "MINFILTER")' = min /\ Asked(x, "MAGFILTER")' = new /\ Asked(x, "MIPFILTER")' = mip
        BY <3>3, <3>7 DEF FilterStates, new, min, mip
      <4> QED
        BY <2>1, <3>2, <3>5, <3>7, <4>1, Zenon DEF min, mag, mip, new
    <3>8. CASE type = "MIPFILTER"
      <4>1. Asked(x, "MINFILTER")' = min /\ Asked(x, "MAGFILTER")' = mag /\ Asked(x, "MIPFILTER")' = new
        BY <3>3, <3>8 DEF FilterStates, new, min, mag
      <4> QED
        BY <2>1, <3>2, <3>5, <3>8, <4>1, Zenon DEF min, mag, mip, new
    <3> QED
      BY <2>2, <3>6, <3>7, <3>8, Zenon DEF FilterStates
  <2>3. CASE ~(x = sampler /\ type \in FilterStates)
    <3>1. \A t \in FilterStates : <<x, t>> # asks
      BY <2>3 DEF asks
    <3>2. \A t \in FilterStates : Asked(x, t)' = Asked(x, t)
      BY <1>8, <3>1, Zenon
    <3>3. <<x, "Filter">> # field
      <4>1. CASE type \in FilterStates
        BY <2>3, <4>1 DEF field
      <4>2. CASE type \notin FilterStates
        BY <1>5, <4>2 DEF field, asks
      <4> QED
        BY <4>1, <4>2
    <3>4. FilterOf(x)' = FilterOf(x)
      BY <1>5, <3>3, Zenon DEF FilterOf
    <3> QED
      BY <2>1, <3>2, <3>4, Zenon DEF FilterStates
  <2> QED
    BY <2>2, <2>3
<1>10. ValuesOK'
  <2> SUFFICES ASSUME NEW key \in DOMAIN pipeline', key[2] # "Filter"
               PROVE  \E source \in Writers(key[1], key[2]) \cap DOMAIN latest' :
                        Holds(key[1], key[2], pipeline'[key], latest'[source])
    BY Zenon DEF ValuesOK
  <2>1. CASE key = field /\ type \in SamplerFields \ {"Filter"}
    <3>1. asks \in Writers(key[1], key[2])
      <4>1. FieldType(type) = type
        BY <2>1 DEF FieldType, SamplerFields
      <4> QED
        BY <1>4, <1>5, <2>1, <4>1, Zenon DEF Writers, asks
    <3> QED
      BY <1>2, <1>4, <1>5, <2>1, <3>1, Zenon
  <2>2. CASE ~(key = field /\ type \in SamplerFields \ {"Filter"})
    <3>0. type \in FilterStates => field[2] = "Filter"
      BY DEF field
    <3>1. key \in DOMAIN pipeline /\ pipeline'[key] = pipeline[key]
      BY <1>5, <2>2, <3>0, Zenon
    <3>2. PICK source \in Writers(key[1], key[2]) \cap DOMAIN latest :
             Holds(key[1], key[2], pipeline[key], latest[source])
      BY <3>1, Zenon DEF PipelineInv, ValuesOK
    <3>3. source # asks
      <4> SUFFICES ASSUME source = asks PROVE FALSE
        OBVIOUS
      <4>1. key[1] = sampler /\ type = FieldType(key[2])
        BY <1>4, <3>2 DEF Writers, asks
      <4>2. key[2] \in SamplerFields /\ key = <<key[1], key[2]>>
        BY <3>1, <4>1, Zenon DEF PipelineInv, FieldsOK
      <4>3. FieldType(key[2]) = key[2]
        BY <4>2 DEF FieldType, SamplerFields
      <4>4. key = asks /\ type \in SamplerFields \ {"Filter"}
        BY <4>1, <4>2, <4>3, Zenon DEF asks
      <4> QED
        BY <1>5, <2>2, <4>4, Zenon
    <3>4. source \in DOMAIN latest' /\ latest'[source] = latest[source]
      BY <1>2, <3>2, <3>3, Zenon
    <3> QED
      BY <3>1, <3>2, <3>4, Zenon
  <2> QED
    BY <2>1, <2>2
<1>11. NothingIsLost'
  <2> SUFFICES ASSUME NEW asked \in DOMAIN latest', asked[1] = Pass, asked[2] \notin Ignored
               PROVE  <<Pass, RenderField(asked[2])>> \in DOMAIN pipeline'
    BY Zenon DEF NothingIsLost
  <2>1. asked # asks
    BY <1>4, Zenon
  <2> QED
    BY <1>2, <1>6, <2>1, Zenon DEF PipelineInv, NothingIsLost
<1> QED
  BY <1>7, <1>9, <1>10, <1>11, Zenon DEF PipelineInv

-----------------------------------------------------------------------------
LEMMA NextPipelineInv == PipelineInv /\ [PipelineNext]_pipelineVars => PipelineInv'
<1> SUFFICES ASSUME PipelineInv, [PipelineNext]_pipelineVars PROVE PipelineInv'
  OBVIOUS
<1>1. CASE UNCHANGED <<pipeline, latest>>
  BY <1>1, Zenon DEF PipelineInv, FieldsOK, FiltersOK, ValuesOK, NothingIsLost, FilterOf, Asked
<1>2. ASSUME NEW parameter \in RenderParameters, ReadRenderState(parameter[1], parameter[2])
      PROVE  PipelineInv'
  <2>1. parameter[1] \notin {"Filter", "AlphaToCoverageEnable"}
    BY PipelineAssumption
  <2> QED
    BY <1>2, <2>1, RenderKeepsPipelineInv
<1>3. ASSUME NEW parameter \in SamplerParameters,
             ReadSamplerState(parameter[1], parameter[2], parameter[3])
      PROVE  PipelineInv'
  <2>1. parameter[1] \in 0 .. 15
    BY PipelineAssumption
  <2> QED
    BY <1>3, <2>1, SamplerKeepsPipelineInv
<1>4. UNCHANGED pipelineVars \/ BeginSamplers => UNCHANGED <<pipeline, latest>>
  BY DEF pipelineVars, BeginSamplers
<1> QED
  BY <1>1, <1>2, <1>3, <1>4, Zenon DEF PipelineNext

LEMMA PipelineInvSays == PipelineInv => StatesAreIndependent
<1> SUFFICES ASSUME PipelineInv PROVE StatesAreIndependent
  OBVIOUS
<1>1. ASSUME NEW key \in DOMAIN pipeline, key[2] = "Filter"
      PROVE  /\ DecodeMin(pipeline[key]) = Asked(key[1], "MINFILTER")
             /\ DecodeMag(pipeline[key]) = Asked(key[1], "MAGFILTER")
             /\ DecodeMip(pipeline[key]) = Asked(key[1], "MIPFILTER")
  <2> DEFINE min == Asked(key[1], "MINFILTER")
             mag == Asked(key[1], "MAGFILTER")
             mip == Asked(key[1], "MIPFILTER")
  <2>1. key[1] \in 0 .. 15 /\ key = <<key[1], "Filter">>
    BY <1>1, Zenon DEF PipelineInv, FieldsOK
  <2>2. pipeline[key] = Encode(min, mag, mip)
    <3>1. FilterOf(key[1]) = pipeline[key]
      BY <1>1, <2>1, Zenon DEF FilterOf
    <3> QED
      BY <2>1, <3>1, Zenon DEF PipelineInv, FiltersOK
  <2>3. min \in {0, 1} /\ mag \in {0, 1} /\ mip \in {0, 1}
    BY AskedTypes, Zenon
  <2> HIDE DEF min, mag, mip
  <2>4. /\ DecodeMin(pipeline[key]) = min
        /\ DecodeMag(pipeline[key]) = mag
        /\ DecodeMip(pipeline[key]) = mip
    BY <2>2, <2>3, DecodeEncode
  <2> QED
    BY <2>4, Zenon DEF min, mag, mip
<1>2. ASSUME NEW key \in DOMAIN pipeline, key[2] # "Filter"
      PROVE  \E source \in Writers(key[1], key[2]) \cap DOMAIN latest :
               Holds(key[1], key[2], pipeline[key], latest[source])
  BY <1>2, Zenon DEF PipelineInv, ValuesOK
<1>3. NothingIsLost
  BY Zenon DEF PipelineInv
<1> QED
  BY <1>1, <1>2, <1>3, Zenon DEF StatesAreIndependent, NothingIsLost, Writers, Holds, FieldType

(* The parameters of a shader pass do not disturb one another, in whatever *)
(* order from_shader_pass reads them, however many they are.               *)
THEOREM ParametersAreApart == PipelineSpec => []StatesAreIndependent
<1>1. PipelineSpec => []PipelineInv
  BY InitPipelineInv, NextPipelineInv, PTL DEF PipelineSpec
<1> QED
  BY <1>1, PipelineInvSays, PTL

-----------------------------------------------------------------------------
(* Conversions.                                                            *)
Length(text, max) == Min({max \div 2, Len(text)})
Widened(text, length) ==
    Written(EmptyBuffer, [i \in 1 .. length |-> SignExtended(text[i])])

(* What the steps of a conversion of a text leave for the next one.        *)
TextsOK ==
    /\ request.call = "widen" =>
         /\ request.text \in Texts
         /\ \E length \in 0 .. Len(request.text) :
              /\ wide = Widened(request.text, length)
              /\ wideBytes \in {Untouched, 2 * length}
         /\ narrow = EmptyBuffer /\ narrowBytes = Untouched
    /\ request.call = "narrow" =>
         /\ request.text \in Texts
         /\ \E length \in 0 .. Len(request.text) :
              /\ wide = Widened(request.text, length)
              /\ wideBytes = 2 * length /\ request.bytes = 2 * length
              /\ narrowBytes \in {Untouched, length}
              /\ reply.status = "STATUS_FAIL_CHECK" =>
                   narrow = EmptyBuffer /\ request.max \in Nat /\ request.max < length
              /\ reply.status # "STATUS_FAIL_CHECK" => request.max \in Nat /\ length <= request.max

ConversionsInv == TextsOK /\ ConversionsAreTrue

LEMMA QuotientBounds ==
    ASSUME NEW n \in Nat, NEW a \in Nat \ {0}
    PROVE  /\ (n \div a) \in Nat
           /\ (n \div a) * a <= n
           /\ n < (n \div a + 1) * a
<1>1. n = a * (n \div a) + (n % a) /\ n % a \in 0 .. a - 1 /\ (n \div a) \in Nat
  OBVIOUS
<1> DEFINE q == n \div a
<1> HIDE DEF q
<1>2. q \in Nat /\ n = a * q + (n % a) /\ n % a \in 0 .. a - 1
  BY <1>1 DEF q
<1>3. (q + 1) * a = q * a + a /\ a * q = q * a /\ q * a \in Nat
  BY <1>2
<1> QED
  BY <1>2, <1>3 DEF q

LEMMA Bounded ==
    ASSUME NEW n \in Nat, NEW d \in Nat \ {0}, NEW m \in Nat, n < d * m
    PROVE  n \div d < m
<1> DEFINE q == n \div d
<1>1. q \in Nat /\ q * d <= n
  BY QuotientBounds
<1> HIDE DEF q
<1>2. ASSUME q >= m PROVE FALSE
  <2>1. q * d >= m * d
    BY <1>1, <1>2, SMT
  <2> QED
    BY <1>1, <2>1, SMT
<1> QED
  BY <1>1, <1>2 DEF q

LEMMA DelayIsTrue ==
    ASSUME NEW alertable \in BOOLEAN, NEW timeout \in {Null} \cup {<<time>> : time \in Times},
           KeDelayExecutionThread(alertable, timeout)
    PROVE  SleepsAsAsked'
<1>1. request' = [call |-> "delay", alertable |-> alertable, timeout |-> timeout]
  BY DEF KeDelayExecutionThread
<1>2. CASE alertable
  BY <1>1, <1>2 DEF SleepsAsAsked, KeDelayExecutionThread
<1>3. CASE ~alertable
  <2>1. PICK ms \in GuestTimeoutToMilliseconds(timeout) :
          reply' = [status |-> "STATUS_SUCCESS", slept |-> ms]
    BY <1>3 DEF KeDelayExecutionThread
  <2>2. CASE timeout = Null
    BY <1>1, <2>1, <2>2 DEF SleepsAsAsked, GuestTimeoutToMilliseconds
  <2>3. CASE timeout # Null
    <3>1. PICK t \in Times : timeout = <<t>>
      BY <2>3
    <3>2. t \in Int /\ -t \in Int /\ timeout[1] = t
      BY <3>1, ConversionsAssumption, SMT DEF Times
    <3>3. PICK ticks \in Negations(t) : ms = Divided(ticks, Unit) % MsModulus
      BY <2>1, <2>3, <3>2 DEF GuestTimeoutToMilliseconds
    <3>4. ASSUME 0 <= -t, -t < Unit * INFINITE
          PROVE  ms * Unit <= -t /\ -t < (ms + 1) * Unit
      <4> DEFINE n == -t
      <4>1. n \in Nat
        BY <3>2, <3>4, SMT
      <4>2. t # -TimeSpan
        BY <3>2, <3>4, ConversionsAssumption, SMT DEF INFINITE
      <4>3. ticks = n
        BY <3>3, <4>2 DEF Negations
      <4> HIDE DEF n
      <4>4. Divided(n, Unit) = n \div Unit
        BY <4>1, SMT DEF Divided
      <4>5. INFINITE \in Nat /\ Unit \in Nat \ {0}
        BY ConversionsAssumption, SMT DEF INFINITE
      <4>6. n < Unit * INFINITE
        BY <3>4 DEF n
      <4>7. n \div Unit < INFINITE
        BY <4>1, <4>5, <4>6, Bounded
      <4>8. n \div Unit \in Nat /\ (n \div Unit) * Unit <= n /\ n < (n \div Unit + 1) * Unit
        BY <4>1, <4>5, QuotientBounds
      <4> DEFINE q == n \div Unit
      <4> HIDE DEF q
      <4>9. q % MsModulus = q
        <5>1. q \in Nat /\ q < MsModulus
          BY <4>7, <4>8, ConversionsAssumption, SMT DEF INFINITE, q
        <5> QED
          BY <5>1, ConversionsAssumption, SMT
      <4>10. ms = q
        BY <3>3, <4>3, <4>4, <4>9 DEF q
      <4> QED
        BY <4>8, <4>10 DEF n, q
    <3>5. reply'.slept = ms /\ request'.timeout = timeout /\ request'.timeout # Null
      BY <1>1, <2>1, <2>3
    <3> QED
      BY <3>2, <3>4, <3>5, Zenon DEF SleepsAsAsked
  <2> QED
    BY <2>2, <2>3
<1> QED
  BY <1>2, <1>3

LEMMA StringIsTrue ==
    ASSUME NEW strlen \in TextLengths, RtlInitAnsiString(strlen)
    PROVE  StringsFitTheirTexts'
<1>1. strlen \in Nat
  BY ConversionsAssumption
<1> DEFINE length == strlen % Width16
<1>2. length \in Nat /\ length <= strlen /\ (strlen < Width16 => length = strlen)
  BY <1>1, SMT DEF Width16
<1>3. /\ request' = [call |-> "string", strlen |-> strlen]
      /\ reply' = [Length |-> length, MaximumLength |-> (length + 1) % Width16]
  BY DEF RtlInitAnsiString
<1>4. strlen < Width16 - 1 => (length + 1) % Width16 = strlen + 1
  BY <1>1, <1>2, SMT DEF Width16
<1> HIDE DEF length
<1>5. strlen < Width16 - 1 => length = strlen
  BY <1>1, <1>2, SMT DEF Width16
<1> QED
  BY <1>2, <1>3, <1>4, <1>5, Zenon DEF StringsFitTheirTexts

LEMMA SignExtendedNarrowed ==
    ASSUME NEW byte \in 0 .. 255
    PROVE  Narrowed(SignExtended(byte)) = IF byte < 128 THEN byte ELSE 63
  BY SMT DEF Narrowed, SignExtended, Width16

LEMMA LengthFits ==
    ASSUME NEW text \in Texts, NEW max \in Limits
    PROVE  Length(text, max) \in 0 .. Len(text)
<1>1. max \in Nat /\ text \in Seq(0 .. 255) /\ Len(text) \in Nat
  BY ConversionsAssumption
<1>2. max \div 2 \in Nat
  BY <1>1, SMT
<1> DEFINE half == max \div 2
<1>3. \E x \in {half, Len(text)} : \A y \in {half, Len(text)} : x <= y
  <2> HIDE DEF half
  <2> QED
    BY <1>1, <1>2, SMT DEF half
<1>4. Length(text, max) \in {half, Len(text)} /\ \A y \in {half, Len(text)} : Length(text, max) <= y
  BY <1>3, Zenon DEF Length, Min
<1> HIDE DEF half
<1> QED
  BY <1>1, <1>2, <1>4, SMT DEF half

LEMMA WidenKeeps ==
    ASSUME NEW text \in Texts, NEW max \in Limits, NEW tells \in BOOLEAN,
           RtlMultiByteToUnicodeN(text, max, tells)
    PROVE  TextsOK'
<1> DEFINE length == Length(text, max)
<1>1. length \in 0 .. Len(text)
  BY LengthFits
<1>2. /\ request' = [call |-> "widen", text |-> text, max |-> max]
      /\ wide' = Widened(text, length)
      /\ wideBytes' = IF tells THEN length * 2 ELSE Untouched
      /\ narrow' = EmptyBuffer /\ narrowBytes' = Untouched
  BY Zenon DEF RtlMultiByteToUnicodeN, Length, Widened
<1> HIDE DEF length
<1>3. length * 2 = 2 * length
  BY <1>1, SMT
<1>4. request'.call = "widen" /\ request'.text = text
  BY <1>2
<1>5. wideBytes' \in {Untouched, 2 * length}
  BY <1>2, <1>3
<1> QED
  BY <1>1, <1>2, <1>4, <1>5, Zenon DEF TextsOK

(* A narrowing of what has just been widened.                              *)
LEMMA NarrowKeeps ==
    ASSUME NEW text \in Texts, NEW length \in 0 .. Len(text), NEW max \in Nat, NEW tells \in BOOLEAN,
           request.text = text, wide = Widened(text, length), wideBytes = 2 * length,
           narrow = EmptyBuffer, narrowBytes \in {Untouched, length},
           RtlUnicodeToMultiByteN(max, 2 * length, tells)
    PROVE  TextsOK' /\ TextsComeBack'
<1>1. text \in Seq(0 .. 255) /\ Len(text) \in Nat /\ length \in Nat
  BY ConversionsAssumption
<1>2. (2 * length) \div 2 = length
  BY <1>1, SMT
<1>3. /\ request' = [call |-> "narrow", text |-> text, bytes |-> 2 * length, max |-> max]
      /\ narrowBytes' = IF tells THEN length ELSE narrowBytes
      /\ wide' = wide /\ wideBytes' = wideBytes
      /\ length > max => reply' = [status |-> "STATUS_FAIL_CHECK"] /\ narrow' = narrow
      /\ ~(length > max) => /\ narrow' = Written(narrow, [i \in 1 .. length |-> Narrowed(wide[i])])
                            /\ reply' = [status |-> "STATUS_SUCCESS"]
  BY <1>2, Zenon DEF RtlUnicodeToMultiByteN
<1>4. request'.call = "narrow" /\ request'.text = text /\ request'.bytes = 2 * length /\ request'.max = max
  BY <1>3
<1>5. narrowBytes' \in {Untouched, length}
  BY <1>3
<1>6. CASE length > max
  <2>1. reply'.status = "STATUS_FAIL_CHECK" /\ narrow' = EmptyBuffer
    BY <1>3, <1>6
  <2>2. max < length /\ max # length /\ max # Untouched
    BY <1>1, <1>6, SMT DEF Untouched
  <2>3. max # narrowBytes'
    BY <1>5, <2>2
  <2>4. TextsOK'
    BY <1>3, <1>4, <1>5, <2>1, <2>2, Zenon DEF TextsOK
  <2> QED
    BY <1>4, <2>1, <2>3, <2>4, Zenon DEF TextsComeBack
<1>7. CASE ~(length > max)
  <2>1. reply'.status = "STATUS_SUCCESS" /\ reply'.status # "STATUS_FAIL_CHECK"
    BY <1>3, <1>7
  <2>2. length <= max /\ length <= Len(text)
    BY <1>1, <1>7, SMT
  <2>3. TextsOK'
    BY <1>3, <1>4, <1>5, <2>1, <2>2, Zenon DEF TextsOK
  <2>4. DOMAIN EmptyBuffer = 1 .. BufferSize /\ \A i \in 1 .. BufferSize : EmptyBuffer[i] = Untouched
    BY DEF EmptyBuffer
  <2> DEFINE units == [i \in 1 .. length |-> SignExtended(text[i])]
             bytes == [i \in 1 .. length |-> Narrowed(wide[i])]
  <2>5. Len(units) = length /\ Len(bytes) = length
    BY <1>1, SMT
  <2>6. narrow' = [i \in 1 .. BufferSize |-> IF i <= length THEN bytes[i] ELSE Untouched]
    BY <1>3, <1>7, <2>4, <2>5 DEF Written
  <2>7. wide = [i \in 1 .. BufferSize |-> IF i <= length THEN units[i] ELSE Untouched]
    BY <2>4, <2>5 DEF Written, Widened
  <2>8. ASSUME NEW i \in DOMAIN narrow'
        PROVE  narrow'[i] = IF i > length THEN Untouched
                            ELSE IF text[i] < 128 THEN text[i] ELSE 63
    <3>1. i \in 1 .. BufferSize /\ i \in Nat
      BY <2>6
    <3>2. CASE i > length
      BY <1>1, <2>6, <3>1, <3>2, SMT
    <3>3. CASE ~(i > length)
      <4>1. i \in 1 .. length /\ i <= length
        BY <1>1, <3>1, <3>3, SMT
      <4>2. narrow'[i] = bytes[i] /\ wide[i] = units[i]
        BY <2>6, <2>7, <3>1, <4>1
      <4>3. narrow'[i] = Narrowed(SignExtended(text[i]))
        BY <4>1, <4>2
      <4>4. text[i] \in 0 .. 255
        <5>1. i \in 1 .. Len(text)
          BY <1>1, <4>1, SMT
        <5> QED
          BY <1>1, <5>1, ElementOfSeq
      <4> QED
        BY <3>3, <4>3, <4>4, SignExtendedNarrowed
    <3> QED
      BY <3>2, <3>3
  <2>9. wideBytes' \div 2 = length
    BY <1>2, <1>3
  <2> QED
    BY <1>4, <2>1, <2>2, <2>3, <2>8, <2>9, Zenon DEF TextsComeBack
<1> QED
  BY <1>6, <1>7

(* A step that is not about texts makes its own promise only.              *)
LEMMA NarrowStepKeeps == ConversionsInv /\ NarrowStep => ConversionsInv'
<1> SUFFICES ASSUME ConversionsInv, NarrowStep PROVE ConversionsInv'
  OBVIOUS
<1>1. TextsOK
  BY DEF ConversionsInv
<1>2. ASSUME request.call = "widen", wideBytes # Untouched,
             NEW max \in Limits, NEW tells \in BOOLEAN, RtlUnicodeToMultiByteN(max, wideBytes, tells)
      PROVE  TextsOK' /\ TextsComeBack'
  <2>1. PICK length \in 0 .. Len(request.text) :
             wide = Widened(request.text, length) /\ wideBytes \in {Untouched, 2 * length}
    BY <1>1, <1>2 DEF TextsOK
  <2>2. request.text \in Texts /\ narrow = EmptyBuffer /\ narrowBytes = Untouched
    BY <1>1, <1>2 DEF TextsOK
  <2>3. wideBytes = 2 * length /\ max \in Nat
    BY <1>2, <2>1, ConversionsAssumption
  <2> DEFINE text == request.text
  <2>4. text \in Texts /\ length \in 0 .. Len(text) /\ request.text = text /\ wide = Widened(text, length)
    BY <2>1, <2>2
  <2>5. RtlUnicodeToMultiByteN(max, 2 * length, tells) /\ narrowBytes \in {Untouched, length}
    BY <1>2, <2>2, <2>3
  <2> HIDE DEF text
  <2> QED
    BY <2>2, <2>3, <2>4, <2>5, NarrowKeeps
<1>3. ASSUME request.call = "narrow", reply.status = "STATUS_FAIL_CHECK", narrowBytes # Untouched,
             RtlUnicodeToMultiByteN(narrowBytes, request.bytes, TRUE)
      PROVE  TextsOK' /\ TextsComeBack'
  <2>1. PICK length \in 0 .. Len(request.text) :
           /\ wide = Widened(request.text, length)
           /\ wideBytes = 2 * length /\ request.bytes = 2 * length
           /\ narrowBytes \in {Untouched, length} /\ narrow = EmptyBuffer
    BY <1>1, <1>3 DEF TextsOK
  <2>2. request.text \in Texts /\ narrowBytes = length /\ length \in Nat
    BY <1>1, <1>3, <2>1, ConversionsAssumption DEF TextsOK
  <2> DEFINE text == request.text
  <2>4. text \in Texts /\ length \in 0 .. Len(text) /\ request.text = text /\ wide = Widened(text, length)
    BY <2>1, <2>2
  <2>5. RtlUnicodeToMultiByteN(length, 2 * length, TRUE)
    BY <1>3, <2>1, <2>2
  <2> HIDE DEF text
  <2> QED
    BY <2>1, <2>2, <2>4, <2>5, NarrowKeeps
<1>4. TextsOK' /\ TextsComeBack'
  BY <1>2, <1>3 DEF NarrowStep
<1>5. request'.call = "narrow"
  <2>1. \E bytes, max : request' = [call |-> "narrow", text |-> request.text, bytes |-> bytes, max |-> max]
    BY Zenon DEF NarrowStep, RtlUnicodeToMultiByteN
  <2> QED
    BY <2>1
<1> QED
  BY <1>4, <1>5 DEF ConversionsInv, ConversionsAreTrue, SleepsAsAsked, StringsFitTheirTexts

LEMMA FirstStepKeeps == FirstStep => ConversionsInv'
<1> SUFFICES ASSUME FirstStep PROVE ConversionsInv'
  OBVIOUS
<1> USE DEF ConversionsInv, ConversionsAreTrue
<1>1. ASSUME NEW alertable \in BOOLEAN, NEW timeout \in {Null} \cup {<<time>> : time \in Times},
             KeDelayExecutionThread(alertable, timeout)
      PROVE  ConversionsInv'
  <2>1. request'.call = "delay"
    BY <1>1 DEF KeDelayExecutionThread
  <2>2. SleepsAsAsked'
    BY <1>1, DelayIsTrue
  <2> QED
    BY <2>1, <2>2 DEF TextsOK, StringsFitTheirTexts, TextsComeBack
<1>2. ASSUME NEW strlen \in TextLengths, RtlInitAnsiString(strlen) PROVE ConversionsInv'
  <2>1. request'.call = "string"
    BY <1>2 DEF RtlInitAnsiString
  <2>2. StringsFitTheirTexts'
    BY <1>2, StringIsTrue
  <2> QED
    BY <2>1, <2>2 DEF TextsOK, SleepsAsAsked, TextsComeBack
<1>3. ASSUME NEW text \in Texts, NEW max \in Limits, NEW tells \in BOOLEAN,
             RtlMultiByteToUnicodeN(text, max, tells)
      PROVE  ConversionsInv'
  <2>1. request'.call = "widen"
    BY <1>3 DEF RtlMultiByteToUnicodeN
  <2>2. TextsOK'
    BY <1>3, WidenKeeps
  <2> QED
    BY <2>1, <2>2 DEF SleepsAsAsked, StringsFitTheirTexts, TextsComeBack
<1>4. ASSUME NEW category \in {1, 2, 3}, NEW setting \in 1 .. 15, NEW size \in {0, 4, 20},
             ExGetXConfigSetting(category, setting, size)
      PROVE  ConversionsInv'
  <2>1. request'.call = "config"
    BY <1>4 DEF ExGetXConfigSetting
  <2> QED
    BY <2>1 DEF TextsOK, SleepsAsAsked, StringsFitTheirTexts, TextsComeBack
<1> QED
  BY <1>1, <1>2, <1>3, <1>4, Zenon DEF FirstStep

(* What the conversions promise holds always, whatever the guest converts  *)
(* and however large its buffers are.                                      *)
THEOREM ConversionsAlwaysTrue == ConversionsSpec => []ConversionsAreTrue
<1>1. ConversionsInit => ConversionsInv
  BY DEF ConversionsInit, ConversionsInv, ConversionsAreTrue, TextsOK, SleepsAsAsked,
         StringsFitTheirTexts, TextsComeBack
<1>2. ConversionsInv /\ [ConversionsNext]_convVars => ConversionsInv'
  <2>1. CASE ConversionsNext
    BY <2>1, NarrowStepKeeps, FirstStepKeeps DEF ConversionsNext
  <2>2. CASE UNCHANGED convVars
    BY <2>2 DEF convVars, ConversionsInv, ConversionsAreTrue, TextsOK, SleepsAsAsked,
                StringsFitTheirTexts, TextsComeBack
  <2> QED
    BY <2>1, <2>2
<1>3. ConversionsInv => ConversionsAreTrue
  BY DEF ConversionsInv
<1> QED
  BY <1>1, <1>2, <1>3, PTL DEF ConversionsSpec

-----------------------------------------------------------------------------
(* Critical sections.                                                      *)
OwnerInv ==
    \A t \in Threads :
        /\ owner = t =>
             /\ recursion = depth[t]
             /\ pc[t] \in {"guest", "exchange", "count", "store"}
             /\ pc[t] \in {"guest", "exchange"} => depth[t] > 0
             /\ pc[t] = "store" => depth[t] = 0
        /\ owner # t => depth[t] = 0 /\ pc[t] \notin {"count", "store"}

FreeInv == owner = NoThread => recursion = 0

BoundInv ==
    \A t \in Threads :
        pc[t] \in {"exchange", "count", "compare", "asleep"} => depth[t] < MaxDepth

SeenInv ==
    \A t \in Threads : pc[t] \in {"compare", "asleep"} => seen[t] # NoThread

ExclusionInv == TypeOK /\ OwnerInv /\ FreeInv /\ BoundInv

SectionInv == ExclusionInv /\ SeenInv /\ NoLostWakeup

-----------------------------------------------------------------------------
(* The section starts out free, with nobody inside a call.                 *)
LEMMA InitSectionInv == Init => SectionInv
<1> SUFFICES ASSUME Init PROVE SectionInv
  OBVIOUS
<1>1. ExclusionInv
  BY NoThreadAssumption, MaxDepthAssumption
     DEF Init, ExclusionInv, TypeOK, OwnerInv, FreeInv, BoundInv, Locations
<1>2. SeenInv /\ NoLostWakeup
  BY DEF Init, SeenInv, NoLostWakeup, Asleep
<1> QED
  BY <1>1, <1>2 DEF SectionInv

(* No step of Enter, Leave or the host lets two threads in or loses count. *)
LEMMA NextExclusion == ExclusionInv /\ [Next]_vars => ExclusionInv'
<1> SUFFICES ASSUME ExclusionInv, [Next]_vars PROVE ExclusionInv'
  OBVIOUS
<1> USE NoThreadAssumption, MaxDepthAssumption
    DEF ExclusionInv, TypeOK, OwnerInv, FreeInv, BoundInv, Locations, Goto
<1>1. ASSUME NEW t \in Threads, Enter(t) PROVE ExclusionInv'
  BY <1>1 DEF Enter
<1>2. ASSUME NEW t \in Threads, TakeFree(t) PROVE ExclusionInv'
  BY <1>2 DEF TakeFree
<1>3. ASSUME NEW t \in Threads, Reenter(t) PROVE ExclusionInv'
  BY <1>3 DEF Reenter
<1>4. ASSUME NEW t \in Threads, FindTaken(t) PROVE ExclusionInv'
  BY <1>4 DEF FindTaken
<1>5. ASSUME NEW t \in Threads, Count(t) PROVE ExclusionInv'
  BY <1>5 DEF Count
<1>6. ASSUME NEW t \in Threads, CompareDiffers(t) PROVE ExclusionInv'
  BY <1>6 DEF CompareDiffers
<1>7. ASSUME NEW t \in Threads, Park(t) PROVE ExclusionInv'
  BY <1>7 DEF Park
<1>8. ASSUME NEW t \in Threads, SpuriousWake(t) PROVE ExclusionInv'
  BY <1>8 DEF SpuriousWake
<1>9. ASSUME NEW t \in Threads, Leave(t) PROVE ExclusionInv'
  \* Only the owner leaves, so the count it decrements is its own depth.
  <2>1. owner = t /\ recursion = depth[t]
    BY <1>9 DEF Leave
  <2> QED
    BY <1>9, <2>1 DEF Leave
<1>10. ASSUME NEW t \in Threads, Store(t) PROVE ExclusionInv'
  \* Only the owner stores 0, and by then it has counted down to 0.
  <2>1. owner = t /\ recursion = 0 /\ depth[t] = 0
    BY <1>10 DEF Store
  <2> QED
    BY <1>10, <2>1 DEF Store
<1>11. ASSUME NEW t \in Threads, NotifyOne(t) PROVE ExclusionInv'
  BY <1>11 DEF NotifyOne, Asleep
<1>12. CASE UNCHANGED vars
  BY <1>12 DEF vars
<1> QED
  BY <1>1, <1>2, <1>3, <1>4, <1>5, <1>6, <1>7, <1>8, <1>9, <1>10, <1>11, <1>12
     DEF Next, Step

(* A thread starts to wait only for an owner it has just read.             *)
LEMMA NextSeen == ExclusionInv /\ SeenInv /\ [Next]_vars => SeenInv'
<1> SUFFICES ASSUME ExclusionInv, SeenInv, [Next]_vars PROVE SeenInv'
  OBVIOUS
<1> USE NoThreadAssumption DEF ExclusionInv, TypeOK, SeenInv, Locations, Goto
<1>1. ASSUME NEW t \in Threads, FindTaken(t) PROVE SeenInv'
  BY <1>1 DEF FindTaken
<1>2. ASSUME NEW t \in Threads, NotifyOne(t) PROVE SeenInv'
  BY <1>2 DEF NotifyOne, Asleep
<1>3. ASSUME NEW t \in Threads,
             \/ Enter(t) \/ Leave(t) \/ SpuriousWake(t) \/ TakeFree(t) \/ Reenter(t)
             \/ Count(t) \/ CompareDiffers(t) \/ Park(t) \/ Store(t)
      PROVE SeenInv'
  BY <1>3 DEF Enter, Leave, SpuriousWake, TakeFree, Reenter, Count,
              CompareDiffers, Park, Store
<1>4. CASE UNCHANGED vars
  BY <1>4 DEF vars
<1> QED
  BY <1>1, <1>2, <1>3, <1>4 DEF Next, Step

(* Whoever stops being the one on its way to a free lock has taken it or   *)
(* has woken another.                                                      *)
LEMMA NextWakeup ==
    ExclusionInv /\ SeenInv /\ NoLostWakeup /\ [Next]_vars => NoLostWakeup'
<1> SUFFICES ASSUME ExclusionInv, SeenInv, NoLostWakeup, [Next]_vars,
                    (owner = NoThread /\ Asleep # {})'
             PROVE \E t \in Threads : pc'[t] \in {"exchange", "compare", "notify"}
  BY DEF NoLostWakeup
<1> USE NoThreadAssumption DEF ExclusionInv, TypeOK, Asleep, Locations, Goto
<1>1. ASSUME NEW t \in Threads, Store(t)
      PROVE pc'[t] \in {"exchange", "compare", "notify"}
  BY <1>1 DEF Store
<1>2. ASSUME NEW t \in Threads, NotifyOne(t)
      PROVE \E u \in Threads : pc'[u] \in {"exchange", "compare", "notify"}
  \* Somebody is still asleep, so somebody was picked.
  <2>1. PICK u \in Asleep : pc' = [pc EXCEPT ![t] = "guest", ![u] = "compare"]
    BY <1>2 DEF NotifyOne
  <2> QED
    BY <2>1
<1>3. ASSUME NEW t \in Threads, Park(t) PROVE FALSE
  \* It compared equal to the owner it has seen, which is not 0.
  BY <1>3 DEF Park, SeenInv
<1>4. ASSUME NEW t \in Threads, TakeFree(t) \/ Reenter(t) \/ Count(t) PROVE FALSE
  \* The lock is owned.
  BY <1>4 DEF TakeFree, Reenter, Count, OwnerInv
<1>5. ASSUME NEW t \in Threads, Leave(t) PROVE FALSE
  BY <1>5 DEF Leave, OwnerInv
<1>6. ASSUME NEW t \in Threads,
             Enter(t) \/ SpuriousWake(t) \/ FindTaken(t) \/ CompareDiffers(t)
      PROVE pc'[t] \in {"exchange", "compare", "notify"}
  BY <1>6 DEF Enter, SpuriousWake, FindTaken, CompareDiffers
<1>7. ASSUME UNCHANGED vars
      PROVE \E t \in Threads : pc'[t] \in {"exchange", "compare", "notify"}
  BY <1>7 DEF vars, NoLostWakeup
<1> QED
  BY <1>1, <1>2, <1>3, <1>4, <1>5, <1>6, <1>7 DEF Next, Step

LEMMA SectionsAreSound == Spec => []SectionInv
<1>1. SectionInv /\ [Next]_vars => SectionInv'
  BY NextExclusion, NextSeen, NextWakeup DEF SectionInv
<1> QED
  BY InitSectionInv, <1>1, PTL DEF Spec

-----------------------------------------------------------------------------
(* Every variable keeps its type; the nesting bound is never exceeded.     *)
THEOREM SectionTypesHold == Spec => []TypeOK
<1>1. SectionInv => TypeOK
  BY DEF SectionInv, ExclusionInv
<1> QED
  BY SectionsAreSound, <1>1, PTL

(* RtlEnterCriticalSection and RtlLeaveCriticalSection exclude: a thread   *)
(* inside is the recorded owner and RecursionCount counts its entries.     *)
THEOREM Exclusion == Spec => []OwnerAlone
<1>1. SectionInv => OwnerAlone
  BY NoThreadAssumption DEF SectionInv, ExclusionInv, TypeOK, OwnerInv, OwnerAlone
<1> QED
  BY SectionsAreSound, <1>1, PTL

(* The single notify_one of RtlLeaveCriticalSection loses no sleeper.      *)
THEOREM WakeupsSuffice == Spec => []NoLostWakeup
<1>1. SectionInv => NoLostWakeup
  BY DEF SectionInv
<1> QED
  BY SectionsAreSound, <1>1, PTL

(* The guest cannot tell the critical section from a reentrant lock: Count *)
(* acquires, Leave releases, and every other step of the code is invisible.*)
THEOREM Refinement == Spec => ImplementsReentrantLock
<1>1. Init => Lock!Init
  BY DEF Init, Lock!Init
<1>2. SectionInv /\ [Next]_vars => [Lock!Next]_depth
  <2> SUFFICES ASSUME SectionInv, [Next]_vars PROVE [Lock!Next]_depth
    OBVIOUS
  <2>1. ASSUME NEW t \in Threads, Count(t) PROVE Lock!Acquire(t)
    <3>1. \A u \in Threads \ {t} : depth[u] = 0
      BY <2>1, NoThreadAssumption
         DEF Count, SectionInv, ExclusionInv, TypeOK, OwnerInv
    <3> QED
      BY <2>1, <3>1 DEF Count, Lock!Acquire
  <2>2. ASSUME NEW t \in Threads, Leave(t) PROVE Lock!Release(t)
    BY <2>2 DEF Leave, Lock!Release
  <2>3. ASSUME NEW t \in Threads,
               \/ Enter(t) \/ SpuriousWake(t) \/ TakeFree(t) \/ Reenter(t)
               \/ FindTaken(t) \/ CompareDiffers(t) \/ Park(t) \/ Store(t)
               \/ NotifyOne(t)
        PROVE UNCHANGED depth
    BY <2>3 DEF Enter, SpuriousWake, TakeFree, Reenter, FindTaken,
                CompareDiffers, Park, Store, NotifyOne
  <2>4. CASE UNCHANGED vars
    BY <2>4 DEF vars
  <2> QED
    BY <2>1, <2>2, <2>3, <2>4 DEF Next, Step, Lock!Next
<1> QED
  BY <1>1, <1>2, SectionsAreSound, PTL DEF Spec, ImplementsReentrantLock, Lock!Spec

=============================================================================
