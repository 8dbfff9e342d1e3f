-------------------------------- MODULE Powers --------------------------------
(***************************************************************************)
(* Powers of two, for the sizes of dependencies/o1heap.c and the widths of *)
(* words in recompiled/ppc/ppc_context.h.                                  *)
(***************************************************************************)
EXTENDS Integers

pow2[power \in Nat] == IF power = 0 THEN 1 ELSE 2 * pow2[power - 1]

=============================================================================
