----------------------------- MODULE FutexMutex -----------------------------
(***************************************************************************)
(* concurrency/01-mutex/mutex.c run with "mine": the three-state lock word *)
(* of my_lock and my_unlock over the futex system call, guarding a plain   *)
(* counter++.                                                              *)
(*                                                                         *)
(* Every atomic_exchange is seq_cst and one action.  The kernel is         *)
(* external: FUTEX_WAIT compares the word and sleeps in one step, or       *)
(* returns at once when the word has changed (EAGAIN); a sleeper may be    *)
(* sent back by a signal (EINTR) at any time; FUTEX_WAKE 1 makes one       *)
(* sleeper runnable, if there is one.                                      *)
(***************************************************************************)
EXTENDS Integers, FiniteSets

CONSTANTS Threads,  \* the num_thread workers
          Iter      \* worker_arg.iter

ASSUME ThreadsAssumption == Threads # {} /\ IsFiniteSet(Threads)
ASSUME IterAssumption == Iter \in Int \ {0}

VARIABLES word,     \* lock_word: 0, 1 or 2
          counter,  \* *arg->counter, a plain long long
          iters,    \* iters[t]: the loop variable i of worker t
          reg,      \* reg[t]: the value t has loaded to increment
          pc,       \* pc[t]: where worker t is
          mainPc    \* where main is: "create", "join", "joined", "failed"

vars == <<word, counter, iters, reg, pc, mainPc>>

Running == mainPc \in {"create", "join"}

(* The threads between a successful my_lock and the exchange of my_unlock, *)
(* those blocked in the kernel, and those about to write 2 into the word.  *)
Holders == {t \in Threads : pc[t] \in {"load", "store", "unlock"}}
Sleepers == {t \in Threads : pc[t] = "asleep"}
Markers == {t \in Threads : pc[t] = "slow"}
Wakers == {t \in Threads : pc[t] = "wake"}

Loop(n) == IF n < Iter THEN "fast" ELSE "done"

Init ==
  /\ word = 0
  /\ counter = 0
  /\ iters = [t \in Threads |-> 0]
  /\ reg = [t \in Threads |-> 0]
  /\ pc = [t \in Threads |-> "unborn"]
  /\ mainPc = "create"

Goto(t, label) == pc' = [pc EXCEPT ![t] = label]

-----------------------------------------------------------------------------
(* my_lock: the exchange of the fast path. *)
LockFast(t) ==
  /\ Running /\ pc[t] = "fast"
  /\ word' = 1
  /\ Goto(t, IF word = 0 THEN "load" ELSE "slow")
  /\ UNCHANGED <<counter, iters, reg, mainPc>>

(* my_lock: the exchange in the condition of the while. *)
LockSlowStealing(t) ==
  /\ Running /\ pc[t] = "slow"
  /\ word' = 2
  /\ Goto(t, IF word # 2 THEN "load" ELSE "wait")
  /\ UNCHANGED <<counter, iters, reg, mainPc>>

LockSlow(t) ==
  /\ Running /\ pc[t] = "slow"
  /\ word' = 2
  /\ Goto(t, IF word = 0 THEN "load" ELSE "wait")
  /\ UNCHANGED <<counter, iters, reg, mainPc>>

(* my_lock: futex(FUTEX_WAIT_PRIVATE, 2).  The kernel's compare and its    *)
(* enqueue are one step; EAGAIN goes round the loop.                       *)
FutexWaitUnchecked(t) ==
  /\ Running /\ pc[t] = "wait"
  /\ Goto(t, "asleep")
  /\ UNCHANGED <<word, counter, iters, reg, mainPc>>

FutexWait(t) ==
  /\ Running /\ pc[t] = "wait"
  /\ Goto(t, IF word = 2 THEN "asleep" ELSE "slow")
  /\ UNCHANGED <<word, counter, iters, reg, mainPc>>

(* EINTR: the sleeper returns without having been woken. *)
FutexInterrupt(t) ==
  /\ Running /\ pc[t] = "asleep"
  /\ Goto(t, "slow")
  /\ UNCHANGED <<word, counter, iters, reg, mainPc>>

(* my_unlock: release and read the old value in one exchange, then the i++ *)
(* of the caller's for loop, which no other thread can see.                *)
UnlockNeverWakes(t) ==
  /\ Running /\ pc[t] = "unlock"
  /\ word' = 0
  /\ iters' = [iters EXCEPT ![t] = @ + 1]
  /\ Goto(t, Loop(iters[t] + 1))
  /\ UNCHANGED <<counter, reg, mainPc>>

Unlock(t) ==
  /\ Running /\ pc[t] = "unlock"
  /\ word' = 0
  /\ iters' = [iters EXCEPT ![t] = @ + 1]
  /\ Goto(t, IF word = 2 THEN "wake" ELSE Loop(iters[t] + 1))
  /\ UNCHANGED <<counter, reg, mainPc>>

(* my_unlock: futex(FUTEX_WAKE_PRIVATE, 1) wakes one sleeper, if any. *)
FutexWake(t) ==
  /\ Running /\ pc[t] = "wake"
  /\ \/ /\ Sleepers = {}
        /\ Goto(t, Loop(iters[t]))
     \/ \E s \in Sleepers :
          pc' = [pc EXCEPT ![t] = Loop(iters[t]), ![s] = "slow"]
  /\ UNCHANGED <<word, counter, iters, reg, mainPc>>

-----------------------------------------------------------------------------
(* worker: counter++ is a load and a later store. *)
Load(t) ==
  /\ Running /\ pc[t] = "load"
  /\ reg' = [reg EXCEPT ![t] = counter]
  /\ Goto(t, "store")
  /\ UNCHANGED <<word, counter, iters, mainPc>>

Store(t) ==
  /\ Running /\ pc[t] = "store"
  /\ counter' = reg[t] + 1
  /\ Goto(t, "unlock")
  /\ UNCHANGED <<word, iters, reg, mainPc>>

-----------------------------------------------------------------------------
(* main: create the workers, join them, assert the total. *)
MainCreate(t) ==
  /\ mainPc = "create"
  /\ pc[t] = "unborn"
  /\ Goto(t, Loop(0))
  /\ mainPc' = IF \A u \in Threads : pc'[u] # "unborn" THEN "join" ELSE "create"
  /\ UNCHANGED <<word, counter, iters, reg>>

MainCreateFails ==
  /\ mainPc = "create"
  /\ mainPc' = "failed"
  /\ UNCHANGED <<word, counter, iters, reg, pc>>

MainJoin ==
  /\ mainPc = "join"
  /\ \A t \in Threads : pc[t] = "done"
  /\ mainPc' = "joined"
  /\ UNCHANGED <<word, counter, iters, reg, pc>>

-----------------------------------------------------------------------------
(* What a worker does by itself; FutexInterrupt is the environment's.      *)
Worker(t) ==
  \/ LockFast(t) \/ LockSlow(t) \/ FutexWait(t)
  \/ Load(t) \/ Store(t)
  \/ Unlock(t) \/ FutexWake(t)

Next ==
  \/ \E t \in Threads : Worker(t) \/ FutexInterrupt(t) \/ MainCreate(t)
  \/ MainCreateFails
  \/ MainJoin

Spec == Init /\ [][Next]_vars

(* The scheduler runs every runnable thread, and main.  Nothing is assumed *)
(* of interrupts, nor of which sleeper a wake picks.                       *)
Fairness ==
  /\ \A t \in Threads : WF_vars(Worker(t))
  /\ WF_vars(MainJoin \/ MainCreateFails \/ \E t \in Threads : MainCreate(t))

FairSpec == Spec /\ Fairness

-----------------------------------------------------------------------------
TypeOK ==
  /\ word \in 0..2
  /\ counter \in Nat
  /\ iters \in [Threads -> Nat]
  /\ reg \in [Threads -> Nat]
  /\ pc \in [Threads -> {"unborn", "fast", "slow", "wait", "asleep",
                         "load", "store", "unlock", "wake", "done"}]
  /\ mainPc \in {"create", "join", "joined", "failed"}

(* Two threads are never both between my_lock and my_unlock, although a    *)
(* newcomer's exchange overwrites the word of a lock somebody holds.       *)
MutualExclusion == \A t, u \in Holders : t = u

(* A sleeper is never forgotten.  The fast path may overwrite the 2 that   *)
(* says somebody sleeps, and the holder then unlocks without waking; but   *)
(* while anyone sleeps the word says so, or some thread is about to write  *)
(* 2 again, or a wake is on its way.                                       *)
NoLostWakeup ==
  Sleepers # {} => word = 2 \/ Markers # {} \/ Wakers # {}

(* The word is 0 exactly when nobody holds the lock. *)
WordTellsHeld == word = 0 <=> Holders = {}

(* The holder's copy of the counter cannot go stale between its load and   *)
(* its store.                                                              *)
NoStaleIncrement == \A t \in Threads : pc[t] = "store" => reg[t] = counter

(* The assertion that ends main (mutex.c:117). *)
TotalAsserted ==
  mainPc = "joined" => counter = Iter * Cardinality(Threads)

(* What the invariants above need to be preserved by every step. *)
IndInv == TypeOK /\ MutualExclusion /\ NoLostWakeup /\ WordTellsHeld /\ NoStaleIncrement

(* The stores of counter++ done so far, each named by its thread and turn. *)
(* A thread about to unlock has done the store of its current turn.        *)
Stored(t) == IF pc[t] = "unlock" THEN iters[t] + 1 ELSE iters[t]
Increments == {s \in Threads \X (0 .. Iter - 1) : s[2] < Stored(s[1])}

(* What TotalAsserted needs besides, when Iter is positive: the counter    *)
(* counts those stores, a thread is in its loop or past it as its variable *)
(* says, and main has joined only threads that are done.                   *)
TotalInv ==
  /\ counter = Cardinality(Increments)
  /\ \A t \in Threads :
       /\ iters[t] <= Iter
       /\ pc[t] = "unborn" => iters[t] = 0
       /\ pc[t] = "done" => iters[t] = Iter
       /\ pc[t] \notin {"unborn", "wake", "done"} => iters[t] < Iter
  /\ mainPc = "joined" => \A t \in Threads : pc[t] = "done"

(* Nobody sleeps forever: every run reaches the end of main. *)
Termination == <>(mainPc \in {"joined", "failed"})

-----------------------------------------------------------------------------
(* The lock is the one worker_lock takes from pthreads: the threads that   *)
(* wait for the word, in whatever way, are blocked in pthread_mutex_lock,  *)
(* and one that only has a wake left to do is past its unlock.             *)
LockedPc(t) ==
  IF pc[t] \in {"fast", "slow", "wait", "asleep"} THEN "lock"
  ELSE IF pc[t] = "wake" THEN IF iters[t] < Iter THEN "lock" ELSE "done"
  ELSE pc[t]

LC == INSTANCE LockedCounter WITH
        pc <- [t \in Threads |-> LockedPc(t)], holders <- Holders

(* my_lock and my_unlock do what pthread_mutex_lock and _unlock do. *)
ImplementsLockedCounter == LC!Spec
=============================================================================
