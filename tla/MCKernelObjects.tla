---------------------------- MODULE MCKernelObjects ----------------------------
(* Kernel objects for TLC: two headers and room for three objects.          *)
EXTENDS KernelObjects, TLC

CONSTANTS t1, t2, h1, h2, b1, b2, b3

Symmetry == Permutations({t1, t2}) \cup Permutations({h1, h2}) \cup Permutations({b1, b2, b3})

=============================================================================
