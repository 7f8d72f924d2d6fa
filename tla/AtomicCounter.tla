--------------------------- MODULE AtomicCounter ---------------------------
(***************************************************************************)
(* concurrency/02-atomic/atomic.c: main starts one worker per thread, each *)
(* worker performs `iter' atomic increments of one shared counter, main    *)
(* joins them all and asserts the total.                                   *)
(*                                                                         *)
(* A fetch_add is one read-modify-write of the modification order of cnt,  *)
(* whatever its memory order, so worker_explicit (relaxed) and             *)
(* worker_generic (seq_cst) are the same action.  pthread_join orders      *)
(* main's read of the total after every increment.                         *)
(*                                                                         *)
(* The module is also what the other counter programs promise: see         *)
(* LockedCounter and FutexMutex.                                           *)
(***************************************************************************)
EXTENDS Integers, FiniteSets

CONSTANTS Threads,  \* the num_thread workers
          Iter      \* worker_arg.iter, the second command line argument

VARIABLES counter,  \* *arg->cnt
          iters,    \* iters[t]: the loop variable i of worker t
          started,  \* the threads pthread_create has returned
          mainPc    \* where main is: "create", "join", "joined", "failed"

vars == <<counter, iters, started, mainPc>>

(* The process lives until main returns; a return ends every thread. *)
Running == mainPc \in {"create", "join"}

Init ==
  /\ counter = 0
  /\ iters = [t \in Threads |-> 0]
  /\ started = {}
  /\ mainPc = "create"

(* One turn of the worker's loop. *)
Add(t) ==
  /\ Running
  /\ t \in started
  /\ iters[t] < Iter
  /\ counter' = counter + 1
  /\ iters' = [iters EXCEPT ![t] = @ + 1]
  /\ UNCHANGED <<started, mainPc>>

(* main's first loop; the workers run as soon as they are created. *)
MainCreate(t) ==
  /\ mainPc = "create"
  /\ t \notin started
  /\ started' = started \cup {t}
  /\ mainPc' = IF started' = Threads THEN "join" ELSE "create"
  /\ UNCHANGED <<counter, iters>>

(* pthread_create reports an error: main returns 1, running workers end. *)
MainCreateFails ==
  /\ mainPc = "create"
  /\ mainPc' = "failed"
  /\ UNCHANGED <<counter, iters, started>>

(* The join loop: main gets past it once every worker has returned. *)
MainJoin ==
  /\ mainPc = "join"
  /\ \A t \in Threads : iters[t] >= Iter
  /\ mainPc' = "joined"
  /\ UNCHANGED <<counter, iters, started>>

Next ==
  \/ \E t \in Threads : Add(t) \/ MainCreate(t)
  \/ MainCreateFails
  \/ MainJoin

Spec == Init /\ [][Next]_vars

-----------------------------------------------------------------------------
(* The assertion that ends main (atomic.c:84, mutex.c:117): once every     *)
(* worker is joined the counter is iter * num_thread, whatever the         *)
(* interleaving.                                                           *)
TotalAsserted ==
  mainPc = "joined" => counter = Iter * Cardinality(Threads)
=============================================================================
