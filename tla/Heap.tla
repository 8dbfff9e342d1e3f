--------------------------------- MODULE Heap ---------------------------------
(***************************************************************************)
(* The two heaps of runtime/kernel/heap.cpp and the calls of the guest on  *)
(* them.                                                                   *)
(*                                                                         *)
(* Heap::alloc, alloc_physical and free run under the mutex of one heap,   *)
(* each as one step.  RtlReAllocateHeap is an allocation, an unlocked copy *)
(* and a free, and other threads may run between them:                     *)
(*                                                                         *)
(* pc[t]: guest   runs guest code                                          *)
(*        copy    has the new block, about to copy the contents            *)
(*        free    about to free the old block                              *)
(*                                                                         *)
(* A physical block is cut out of an o1heap block at an aligned address;   *)
(* the word before it holds the address of the o1heap block and the size.  *)
(* It is the same word, relative to the block, that holds the size in a    *)
(* fragment's header, where Heap::size finds it for either heap.           *)
(***************************************************************************)
EXTENDS O1Heap

CONSTANTS Threads,
          UserCapacity, PhysicalCapacity,   \* in fragments of minimal size
          Sizes,                            \* what the guest asks for, in words
          Alignments,                       \* of physical blocks; 0 is the default
          DefaultAlignment,                 \* 0x1000 in the code
          Asserts                           \* whether assert(ptr) is compiled in

ASSUME HeapAssumption ==
    /\ UserCapacity \in Nat \ {0} /\ PhysicalCapacity \in Nat \ {0}
    /\ Sizes \subseteq Nat
    /\ Alignments \subseteq Nat
    /\ DefaultAlignment \in Nat \ {0}
    /\ \A a \in (Alignments \ {0}) \cup {DefaultAlignment} : \E k \in 0 .. a : a = pow2[k]
    /\ Asserts \in BOOLEAN
    /\ None \notin Threads

VARIABLES user,             \* the heap of Heap::alloc
          physical,         \* the heap of Heap::alloc_physical
          prefix,           \* the words before physical blocks
          memory,           \* of the user heap: who wrote each word
          userBlocks,       \* what the guest has: [at, size, owner, filled]
          physicalBlocks,   \* what the guest has: [at, size]
          pc,
          old, new,         \* the blocks of the reallocation a thread is in
          crashed           \* by a null pointer or an assertion

physicalHeap == <<physical, prefix, physicalBlocks>>
userHeap == <<user, memory, userBlocks>>
calls == <<pc, old, new>>
vars == <<userHeap, physicalHeap, calls, crashed>>

Words == 0 .. Pointer(UserCapacity) - 1

Init ==
    /\ user = o1heapInit(UserCapacity)
    /\ physical = o1heapInit(PhysicalCapacity)
    /\ prefix = <<>>
    /\ memory = [w \in Words |-> None]
    /\ userBlocks = {} /\ physicalBlocks = {}
    /\ pc = [t \in Threads |-> "guest"]
    /\ old = [t \in Threads |-> None]
    /\ new = [t \in Threads |-> None]
    /\ crashed = FALSE

InGuest(t) == ~crashed /\ pc[t] = "guest"

AtLeastOne(size) == IF size = 0 THEN 1 ELSE size

(* No thread is reallocating the block.                                    *)
Idle(b) == \A t \in Threads : b \notin {old[t], new[t]}

Interval(from, length) == from .. from + length - 1

-----------------------------------------------------------------------------
(* Heap::alloc of a block that holds filled words of owner.                *)
UserBlock(size, owner, filled) ==
    [at |-> Pointer(Chosen(user, AtLeastOne(size))), size |-> size,
     owner |-> owner, filled |-> filled]

alloc(size, owner, filled) ==
    /\ Allocates(user, AtLeastOne(size))
    /\ user' = o1heapAllocate(user, AtLeastOne(size))
    /\ userBlocks' = userBlocks \cup {UserBlock(size, owner, filled)}

(* RtlAllocateHeap and XAllocMem; the guest writes its block full.         *)
Allocate(t, size) ==
    /\ InGuest(t)
    /\ alloc(size, t, size)
    /\ LET at == UserBlock(size, t, size).at IN
       memory' = [w \in Words |-> IF w \in Interval(at, size) THEN t ELSE memory[w]]
    /\ UNCHANGED <<physicalHeap, calls, crashed>>

(* Without memory the guest gets NULL, unless the block was to be cleared  *)
(* or assertions are on.                                                   *)
AllocateInVain(t, size, zeroed) ==
    /\ InGuest(t)
    /\ ~Allocates(user, AtLeastOne(size))
    /\ (zeroed /\ size > 0) \/ Asserts
    /\ crashed' = TRUE
    /\ UNCHANGED <<userHeap, physicalHeap, calls>>

(* Heap::free, below physicalHeap.                                         *)
free(b) ==
    /\ user' = o1heapFree(user, FragmentAt(b.at))
    /\ memory' = [w \in Words |-> IF w \in Interval(b.at, b.size) THEN None ELSE memory[w]]
    /\ userBlocks' = userBlocks \ {b}

(* RtlFreeHeap, XFreeMem                                                   *)
Free(t, b) ==
    /\ InGuest(t)
    /\ b \in userBlocks /\ Idle(b)
    /\ free(b)
    /\ UNCHANGED <<physicalHeap, calls, crashed>>

-----------------------------------------------------------------------------
(* A bug the code could have: rounding up, which may add nothing.          *)
AlignUp(p, alignment) == ((p + alignment - 1) \div alignment) * alignment

(* The address alloc_physical makes of an o1heap block.  Its mask rounds   *)
(* down because alignments are powers of two.                              *)
Align(p, alignment) == ((p + alignment) \div alignment) * alignment

Alignment(alignment) == IF alignment = 0 THEN DefaultAlignment ELSE alignment

(* MmAllocatePhysicalMemoryEx, XAllocMem, the objects of the kernel        *)
AllocatePhysical(t, size, alignment) ==
    LET amount == AtLeastOne(size) + Alignment(alignment)
        p == Pointer(Chosen(physical, amount))
        at == Align(p, Alignment(alignment))
    IN /\ InGuest(t)
       /\ Allocates(physical, amount)
       /\ physical' = o1heapAllocate(physical, amount)
       /\ prefix' = [q \in DOMAIN prefix \cup {at} |->
                       IF q = at THEN [ptr |-> p, size |-> AtLeastOne(size) + O1HEAP_ALIGNMENT]
                       ELSE prefix[q]]
       /\ physicalBlocks' = physicalBlocks \cup {[at |-> at, size |-> size]}
       /\ UNCHANGED <<userHeap, calls, crashed>>

(* alloc_physical writes the prefix without looking at the pointer.        *)
AllocatePhysicalInVain(t, size, alignment) ==
    /\ InGuest(t)
    /\ ~Allocates(physical, AtLeastOne(size) + Alignment(alignment))
    /\ crashed' = TRUE
    /\ UNCHANGED <<userHeap, physicalHeap, calls>>

(* Heap::free, from physicalHeap on, by MmFreePhysicalMemory or XFreeMem   *)
FreePhysical(t, b) ==
    /\ InGuest(t)
    /\ b \in physicalBlocks
    /\ physical' = o1heapFree(physical, FragmentAt(prefix[b.at].ptr))
    /\ prefix' = [p \in DOMAIN prefix \ {b.at} |-> prefix[p]]
    /\ physicalBlocks' = physicalBlocks \ {b}
    /\ UNCHANGED <<userHeap, calls, crashed>>

(* Heap::size                                                              *)
SizeOfPhysical(b) == prefix[b.at].size - O1HEAP_ALIGNMENT

SizeOfUser(b) ==
    FRAGMENT_SIZE_MIN * user.fragments[FragmentAt(b.at)].size - O1HEAP_ALIGNMENT

-----------------------------------------------------------------------------
(* RtlReAllocateHeap                                                       *)
Reallocate(t, b, size) ==
    /\ InGuest(t)
    /\ b \in userBlocks /\ Idle(b)
    /\ alloc(size, b.owner, 0)
    /\ old' = [old EXCEPT ![t] = b]
    /\ new' = [new EXCEPT ![t] = UserBlock(size, b.owner, 0)]
    /\ pc' = [pc EXCEPT ![t] = "copy"]
    /\ UNCHANGED <<memory, physicalHeap, crashed>>

(* Without memory the copy writes to NULL or, if there is nothing to copy, *)
(* the old block is gone.                                                  *)
ReallocateInVain(t, b, size) ==
    /\ InGuest(t)
    /\ b \in userBlocks /\ Idle(b)
    /\ ~Allocates(user, AtLeastOne(size))
    /\ \/ /\ size > 0
          /\ crashed' = TRUE
          /\ UNCHANGED userHeap
       \/ /\ size = 0
          /\ free(b)
          /\ crashed' = Asserts
    /\ UNCHANGED <<physicalHeap, calls>>

(* A bug the code could have: copying all that the old block holds.        *)
CopyAll(t) ==
    LET shift == new[t].at - old[t].at
        kept == [new[t] EXCEPT !.filled = Min({old[t].filled, new[t].size})]
    IN /\ ~crashed /\ pc[t] = "copy"
       /\ memory' = [w \in Words |-> IF w \in Interval(new[t].at, SizeOfUser(old[t]))
                                     THEN memory[w - shift] ELSE memory[w]]
       /\ userBlocks' = (userBlocks \ {new[t]}) \cup {kept}
       /\ new' = [new EXCEPT ![t] = kept]
       /\ pc' = [pc EXCEPT ![t] = "free"]
       /\ UNCHANGED <<user, physicalHeap, old, crashed>>

Copy(t) ==
    LET length == Min({new[t].size, SizeOfUser(old[t])})
        shift == new[t].at - old[t].at
        kept == [new[t] EXCEPT !.filled = Min({old[t].filled, new[t].size})]
    IN /\ ~crashed /\ pc[t] = "copy"
       /\ memory' = [w \in Words |-> IF w \in Interval(new[t].at, length)
                                     THEN memory[w - shift] ELSE memory[w]]
       /\ userBlocks' = (userBlocks \ {new[t]}) \cup {kept}
       /\ new' = [new EXCEPT ![t] = kept]
       /\ pc' = [pc EXCEPT ![t] = "free"]
       /\ UNCHANGED <<user, physicalHeap, old, crashed>>

FreeOld(t) ==
    /\ ~crashed /\ pc[t] = "free"
    /\ free(old[t])
    /\ old' = [old EXCEPT ![t] = None]
    /\ new' = [new EXCEPT ![t] = None]
    /\ pc' = [pc EXCEPT ![t] = "guest"]
    /\ UNCHANGED <<physicalHeap, crashed>>

-----------------------------------------------------------------------------
Next ==
    \E t \in Threads :
        \/ \E size \in Sizes :
             \/ Allocate(t, size)
             \/ \E zeroed \in BOOLEAN : AllocateInVain(t, size, zeroed)
             \/ \E alignment \in Alignments : \/ AllocatePhysical(t, size, alignment)
                                              \/ AllocatePhysicalInVain(t, size, alignment)
             \/ \E b \in userBlocks : Reallocate(t, b, size) \/ ReallocateInVain(t, b, size)
        \/ \E b \in userBlocks : Free(t, b)
        \/ \E b \in physicalBlocks : FreePhysical(t, b)
        \/ Copy(t) \/ FreeOld(t)

Spec == Init /\ [][Next]_vars

-----------------------------------------------------------------------------
HeapOK(h, capacity) ==
    /\ h.capacity = capacity
    /\ h.allocated \in 0 .. capacity
    /\ \A f \in Places(h) : h.fragments[f] \in
         [size : 0 .. capacity, used : BOOLEAN,
          prev : Places(h) \cup {None}, next : Places(h) \cup {None}]
    /\ \A b \in Bins(h) : h.bins[b] \in Seq(Places(h))
    /\ h.nonempty \subseteq Bins(h)

TypeOK ==
    /\ HeapOK(user, UserCapacity)
    /\ HeapOK(physical, PhysicalCapacity)
    /\ DOMAIN prefix = {b.at : b \in physicalBlocks}
    /\ memory \in [Words -> Threads \cup {None}]
    /\ \A b \in userBlocks : /\ b.at \in Words /\ b.size \in Sizes
                             /\ b.owner \in Threads /\ b.filled \in 0 .. b.size
    /\ \A b \in physicalBlocks : b.at \in Nat /\ b.size \in Sizes
    /\ pc \in [Threads -> {"guest", "copy", "free"}]
    /\ \A t \in Threads : IF pc[t] = "guest"
                          THEN old[t] = None /\ new[t] = None
                          ELSE {old[t], new[t]} \subseteq userBlocks /\ old[t] # new[t]
    /\ crashed \in BOOLEAN

(* The fragments of a heap follow one another without gap or overlap, are  *)
(* linked both ways in that order, and no two free ones are neighbours: a  *)
(* heap whose blocks have all been freed is one fragment again.  Every     *)
(* variable has its type.                                                  *)
Chained(h) ==
    /\ 0 \in Fragments(h)
    /\ \A f \in Fragments(h) :
         LET prev == h.fragments[f].prev IN
         IF f = 0 THEN prev = None ELSE prev \in Fragments(h) /\ h.fragments[prev].next = f
    /\ \A f \in Fragments(h) :
         LET end == f + h.fragments[f].size IN
         /\ \A g \in Fragments(h) : g > f => g >= end
         /\ IF end = h.capacity
            THEN h.fragments[f].next = None
            ELSE /\ end \in Fragments(h)
                 /\ h.fragments[f].next = end /\ h.fragments[end].prev = f

Coalesced(h) ==
    \A f, g \in FreeFragments(h) : g # f + h.fragments[f].size

Counted(h) ==
    h.allocated = MapThenSumSet(LAMBDA f : h.fragments[f].size,
                                Fragments(h) \ FreeFragments(h))

FragmentsTile ==
    /\ TypeOK
    /\ \A h \in {user, physical} : Chained(h) /\ Coalesced(h) /\ Counted(h)

(* An allocation fails only when no free fragment is as large as the one   *)
(* it needs, and never takes a fragment that is smaller or in use.         *)
AllocatesWhatFits ==
    \A h \in {user, physical} : \A amount \in 1 .. FRAGMENT_SIZE_MIN * h.capacity :
        LET fits == {f \in FreeFragments(h) : h.fragments[f].size >= FragmentSize(amount)} IN
        IF Allocates(h, amount) THEN Chosen(h, amount) \in fits ELSE fits = {}

(* Every block the guest has lies, with the word in front of a physical    *)
(* one, inside the memory of a fragment in use that is its own, and        *)
(* Heap::size reports at least the size that was asked for.                *)
Inside(h, f, from, length) ==
    /\ f \in Fragments(h) /\ h.fragments[f].used
    /\ from >= Pointer(f)
    /\ from + length <= Pointer(f + h.fragments[f].size) - O1HEAP_ALIGNMENT

BlocksFit ==
    /\ \A b \in userBlocks :
         /\ b.at = Pointer(FragmentAt(b.at))
         /\ Inside(user, FragmentAt(b.at), b.at, b.size)
         /\ SizeOfUser(b) >= b.size
         /\ \A c \in userBlocks : c.at = b.at => c = b
    /\ \A b \in physicalBlocks :
         LET ptr == prefix[b.at].ptr IN
         /\ ptr = Pointer(FragmentAt(ptr))
         /\ Inside(physical, FragmentAt(ptr), b.at - 1, b.size + 1)
         /\ SizeOfPhysical(b) >= b.size
         /\ \A c \in physicalBlocks : c # b => c.at # b.at /\ prefix[c.at].ptr # ptr

(* What was written to a block stays in it, and in the block it is         *)
(* reallocated to as far as that reaches, whatever other threads allocate, *)
(* reallocate and free in between.                                         *)
ContentsAreKept ==
    \A b \in userBlocks : \A w \in Interval(b.at, b.filled) : memory[w] = b.owner

=============================================================================
