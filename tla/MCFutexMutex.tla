---------------------------- MODULE MCFutexMutex ----------------------------
(* Instances of FutexMutex for TLC. *)
EXTENDS FutexMutex

(* A repetition count that main accepts: it refuses 0 only (mutex.c:88). *)
MinusOne == -1
=============================================================================
