------------------------------- MODULE MCHeap -------------------------------
(* The heaps for TLC: two threads that take turns at any step.             *)
EXTENDS Heap, TLC

CONSTANTS t1, t2

Symmetry == Permutations({t1, t2})

=============================================================================
