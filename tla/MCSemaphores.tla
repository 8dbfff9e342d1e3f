----------------------------- MODULE MCSemaphores -----------------------------
(* A semaphore for TLC: three threads that wait and release as they like.   *)
EXTENDS Semaphores

CONSTANTS t1, t2, t3

=============================================================================
