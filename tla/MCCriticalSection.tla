-------------------------- MODULE MCCriticalSection --------------------------
(* The critical section for TLC.                                            *)
EXTENDS CriticalSection

CONSTANTS t1, t2, t3

MCThreads == {t1, t2, t3}

=============================================================================
