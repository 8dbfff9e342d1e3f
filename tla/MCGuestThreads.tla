---------------------------- MODULE MCGuestThreads -----------------------------
(* Guest threads for TLC: the main thread and two that it or they create.   *)
EXTENDS GuestThreads, TLC

CONSTANTS m, t1, t2

Symmetry == Permutations({t1, t2})

=============================================================================
