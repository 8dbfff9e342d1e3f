------------------------------ MODULE MCMutants -------------------------------
(* A mutant for TLC, created by t1, which owns it first.                    *)
EXTENDS Mutants

CONSTANTS t1, t2, t3

=============================================================================
