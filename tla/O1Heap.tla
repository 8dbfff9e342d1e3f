-------------------------------- MODULE O1Heap --------------------------------
(***************************************************************************)
(* The allocator of dependencies/o1heap.c, as operators on a heap: the     *)
(* callers hold a lock around each call, so a call is one step of theirs.  *)
(*                                                                         *)
(* Sizes and addresses count words of 16 bytes, half an O1HEAP_ALIGNMENT,  *)
(* except inside the heap: a fragment is named by its distance from the    *)
(* first one in multiples of FRAGMENT_SIZE_MIN, and has its size in them.  *)
(*                                                                         *)
(* A heap is a record of                                                   *)
(*   capacity   diagnostics.capacity                                       *)
(*   allocated  diagnostics.allocated                                      *)
(*   fragments  the header at each place, Dropped where there is none      *)
(*   bins       the free list of each bin, the last inserted first         *)
(*   nonempty   the bits set in nonempty_bin_mask                          *)
(***************************************************************************)
EXTENDS Powers, Sequences, FiniteSetsExt, SequencesExt

CONSTANT None    \* NULL

ASSUME NoneAssumption == None \notin Int

O1HEAP_ALIGNMENT == 2
FRAGMENT_SIZE_MIN == 4
INSTANCE_SIZE_PADDED == 36    \* 64 bins, the mask and the diagnostics

Unlinked(size) == [size |-> size, used |-> FALSE, prev |-> None, next |-> None]
Dropped == Unlinked(0)

log2Floor(n) == Max({k \in 0 .. n : pow2[k] <= n})
log2Ceil(n) == Min({k \in 0 .. n : pow2[k] >= n})

Places(h) == 0 .. h.capacity - 1
Bins(h) == 0 .. log2Ceil(h.capacity)
Fragments(h) == {f \in Places(h) : h.fragments[f].size > 0}
FreeFragments(h) == {f \in Fragments(h) : ~h.fragments[f].used}

(* The word a fragment's memory begins at, and the fragment it belongs to. *)
Pointer(f) == INSTANCE_SIZE_PADDED + FRAGMENT_SIZE_MIN * f + O1HEAP_ALIGNMENT
FragmentAt(p) == (p - O1HEAP_ALIGNMENT - INSTANCE_SIZE_PADDED) \div FRAGMENT_SIZE_MIN

(* roundUpToPowerOf2(amount + O1HEAP_ALIGNMENT), in fragments.             *)
FragmentSize(amount) ==
    Min({pow2[k] : k \in {j \in 0 .. amount :
                           FRAGMENT_SIZE_MIN * pow2[j] >= amount + O1HEAP_ALIGNMENT}})

-----------------------------------------------------------------------------
interlink(h, left, right) ==
    LET linked(f) == [h.fragments[f] EXCEPT
                        !.next = IF f = left THEN right ELSE h.fragments[f].next,
                        !.prev = IF f = right THEN left ELSE h.fragments[f].prev]
    IN [h EXCEPT !.fragments = [f \in DOMAIN h.fragments |-> linked(f)]]

(* A bug the code could have: rounding up when inserting.                  *)
rebinUp(h, f) ==
    LET bin == log2Ceil(h.fragments[f].size) IN
    [h EXCEPT !.bins[bin] = <<f>> \o @,
              !.nonempty = @ \cup {bin}]

rebin(h, f) ==
    LET bin == log2Floor(h.fragments[f].size) IN
    [h EXCEPT !.bins[bin] = <<f>> \o @,
              !.nonempty = @ \cup {bin}]

unbin(h, f) ==
    LET bin == log2Floor(h.fragments[f].size) IN
    [h EXCEPT !.bins[bin] = RemoveFirst(@, f),
              !.nonempty = IF h.bins[bin] = <<f>> THEN @ \ {bin} ELSE @]

-----------------------------------------------------------------------------
o1heapInit(capacity) ==
    rebin([capacity |-> capacity,
           allocated |-> 0,
           fragments |-> [f \in 0 .. capacity - 1 |->
                            IF f = 0 THEN Unlinked(capacity) ELSE Dropped],
           bins |-> [b \in 0 .. log2Ceil(capacity) |-> <<>>],
           nonempty |-> {}], 0)

(* The nonempty bins all of whose fragments are large enough.              *)
SuitableBins(h, amount) ==
    {b \in h.nonempty : /\ amount <= FRAGMENT_SIZE_MIN * h.capacity - O1HEAP_ALIGNMENT
                        /\ b >= log2Ceil(FragmentSize(amount))}

Allocates(h, amount) == amount > 0 /\ SuitableBins(h, amount) # {}

(* The fragment an allocation takes, if there is one.                      *)
Chosen(h, amount) == Head(h.bins[Min(SuitableBins(h, amount))])

Taken(h, f, size) ==
    [h EXCEPT !.fragments[f] = [@ EXCEPT !.size = size, !.used = TRUE],
              !.allocated = @ + size]

o1heapAllocate(h, amount) ==
    LET f == Chosen(h, amount)
        size == FragmentSize(amount)
        leftover == h.fragments[f].size - size
        rest == f + size
        taken == Taken(unbin(h, f), f, size)
        split == [taken EXCEPT !.fragments[rest] = Unlinked(leftover)]
    IN IF leftover = 0
       THEN taken
       ELSE rebin(interlink(interlink(split, rest, h.fragments[f].next), f, rest), rest)

Unused(h, f) ==
    [h EXCEPT !.fragments[f] = [@ EXCEPT !.used = FALSE],
              !.allocated = @ - h.fragments[f].size]

(* A bug the code could have: neighbours joined and not linked anew.       *)
JoinedUnlinked(h, left, right) ==
    [h EXCEPT !.fragments[left].size = @ + h.fragments[right].size,
              !.fragments[right] = Dropped]

Joined(h, left, right) ==
    LET size == h.fragments[left].size + h.fragments[right].size IN
    [interlink(h, left, h.fragments[right].next)
        EXCEPT !.fragments[left] = [@ EXCEPT !.size = size],
               !.fragments[right] = Dropped]

o1heapFree(h, f) ==
    LET prev == h.fragments[f].prev
        next == h.fragments[f].next
        joinLeft == prev # None /\ ~h.fragments[prev].used
        joinRight == next # None /\ ~h.fragments[next].used
        left == IF joinLeft THEN unbin(Unused(h, f), prev) ELSE Unused(h, f)
        right == IF joinRight THEN Joined(unbin(left, next), f, next) ELSE left
    IN IF joinLeft THEN rebin(Joined(right, prev, f), prev) ELSE rebin(right, f)

=============================================================================
