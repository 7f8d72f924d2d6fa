--------------------------- MODULE LockedCounter ---------------------------
(***************************************************************************)
(* concurrency/01-mutex/mutex.c run with "pthread": worker_lock guards a   *)
(* plain counter++, a load and a later store, with a pthread mutex.        *)
(* The mutex is external: it is held by at most one thread, and            *)
(* pthread_mutex_lock returns only when nobody holds it.                   *)
(*                                                                         *)
(* It is the specification FutexMutex (the same program run with "mine")   *)
(* implements, and it implements AtomicCounter.                            *)
(***************************************************************************)
EXTENDS Integers

CONSTANTS Threads,  \* as in FutexMutex
          Iter

VARIABLES counter,  \* *arg->counter, a plain long long
          iters,    \* iters[t]: the loop variable i of worker t
          reg,      \* reg[t]: the value t has loaded to increment
          pc,       \* pc[t]: where worker t is
          holders,  \* the threads that hold c_lock
          mainPc    \* as in AtomicCounter

vars == <<counter, iters, reg, pc, holders, mainPc>>

Running == mainPc \in {"create", "join"}

(* Where a worker that has done n turns of its loop goes. *)
Loop(n) == IF n < Iter THEN "lock" ELSE "done"

Init ==
  /\ counter = 0
  /\ iters = [t \in Threads |-> 0]
  /\ reg = [t \in Threads |-> 0]
  /\ pc = [t \in Threads |-> "unborn"]
  /\ holders = {}
  /\ mainPc = "create"

(* pthread_mutex_lock *)
Lock(t) ==
  /\ Running /\ pc[t] = "lock"
  /\ holders = {}
  /\ holders' = {t}
  /\ pc' = [pc EXCEPT ![t] = "load"]
  /\ UNCHANGED <<counter, iters, reg, mainPc>>

(* counter++, first half *)
Load(t) ==
  /\ Running /\ pc[t] = "load"
  /\ reg' = [reg EXCEPT ![t] = counter]
  /\ pc' = [pc EXCEPT ![t] = "store"]
  /\ UNCHANGED <<counter, iters, holders, mainPc>>

(* counter++, second half *)
Store(t) ==
  /\ Running /\ pc[t] = "store"
  /\ counter' = reg[t] + 1
  /\ pc' = [pc EXCEPT ![t] = "unlock"]
  /\ UNCHANGED <<iters, reg, holders, mainPc>>

(* pthread_mutex_unlock, and the i++ of the for loop *)
Unlock(t) ==
  /\ Running /\ pc[t] = "unlock"
  /\ holders' = holders \ {t}
  /\ iters' = [iters EXCEPT ![t] = @ + 1]
  /\ pc' = [pc EXCEPT ![t] = Loop(iters[t] + 1)]
  /\ UNCHANGED <<counter, reg, mainPc>>

MainCreate(t) ==
  /\ mainPc = "create"
  /\ pc[t] = "unborn"
  /\ pc' = [pc EXCEPT ![t] = Loop(0)]
  /\ mainPc' = IF \A u \in Threads : pc'[u] # "unborn" THEN "join" ELSE "create"
  /\ UNCHANGED <<counter, iters, reg, holders>>

MainCreateFails ==
  /\ mainPc = "create"
  /\ mainPc' = "failed"
  /\ UNCHANGED <<counter, iters, reg, pc, holders>>

MainJoin ==
  /\ mainPc = "join"
  /\ \A t \in Threads : pc[t] = "done"
  /\ mainPc' = "joined"
  /\ UNCHANGED <<counter, iters, reg, pc, holders>>

Worker(t) == Lock(t) \/ Load(t) \/ Store(t) \/ Unlock(t)

Next ==
  \/ \E t \in Threads : Worker(t) \/ MainCreate(t)
  \/ MainCreateFails
  \/ MainJoin

Spec == Init /\ [][Next]_vars

-----------------------------------------------------------------------------
(* The increment takes effect at the store: a worker about to unlock has   *)
(* done one more increment than turns.                                     *)
Increments == [t \in Threads |-> IF pc[t] = "unlock" THEN iters[t] + 1 ELSE iters[t]]
Started == {t \in Threads : pc[t] # "unborn"}

AC == INSTANCE AtomicCounter WITH iters <- Increments, started <- Started

(* One thread at a time is between lock and unlock. *)
HoldersInv ==
  /\ \A t, u \in holders : t = u
  /\ holders = {t \in Threads : pc[t] \in {"load", "store", "unlock"}}

(* What a thread has loaded is still the counter when it stores. *)
NoStaleIncrement == \A t \in Threads : pc[t] = "store" => reg[t] = counter

(* Where a thread is, by how often it has gone round its loop. *)
LoopInv ==
  \A t \in Threads :
    /\ pc[t] = "unborn" => iters[t] = 0
    /\ pc[t] \in {"lock", "load", "store", "unlock"} => iters[t] < Iter
    /\ pc[t] = "done" => iters[t] >= Iter

TypeOK ==
  /\ counter \in Nat
  /\ iters \in [Threads -> Nat]
  /\ reg \in [Threads -> Nat]
  /\ pc \in [Threads -> {"unborn", "lock", "load", "store", "unlock", "done"}]
  /\ mainPc \in {"create", "join", "joined", "failed"}

IndInv == TypeOK /\ HoldersInv /\ NoStaleIncrement /\ LoopInv

(* Guarding a load and a store with the lock makes the pair an atomic      *)
(* increment: no increment of worker_lock is ever lost.                    *)
ImplementsAtomicCounter == AC!Spec
=============================================================================
