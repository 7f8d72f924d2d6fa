------------------------------ MODULE LockRing ------------------------------
(***************************************************************************)
(* SPSC_Ring_buffer/rb_lock.c: the ring of rb.c with its indices guarded   *)
(* by a mutex and two condition variables to sleep on.                     *)
(*                                                                         *)
(* main first calls the non-blocking operations from one thread, then      *)
(* lets a producer and a consumer call the blocking ones.  The pthread     *)
(* mutex and condition variables are external, as in BoundedBuffer.        *)
(***************************************************************************)
EXTENDS Integers, Sequences

CONSTANTS Capacity,  \* ring->capacity
          Wrap,      \* the values of a uint64_t index: 2^64
          NItems,    \* N_ITEMS
          NTries     \* how many values the single-threaded test may write

VARIABLES buf, head, tail,  \* the fields of struct Ring
          owner,            \* the threads that own ring->lock
          pc,               \* where "prod" and "cons" are
          i,                \* their loop variables
          tried,            \* the next_in of the single-threaded test
          got,              \* the values read, in order
          mainPc            \* where main is

vars == <<buf, head, tail, owner, pc, i, tried, got, mainPc>>
ringVars == <<buf, head, tail, got>>

Threads == {"prod", "cons"}
Slots == 0..(Capacity - 1)

(* index & ring->mask, and unsigned arithmetic on indices *)
Slot(index) == index % Capacity
Wrapped(n) == n % Wrap
Full == Wrapped(head - tail) = Capacity
Empty == head = tail

Loop(n) == IF n < NItems THEN "lock" ELSE "done"

Init ==
  /\ buf = [s \in Slots |-> 0]
  /\ head = 0 /\ tail = 0
  /\ owner = {}
  /\ pc = [t \in Threads |-> "unborn"]
  /\ i = [t \in Threads |-> 0]
  /\ tried = 0
  /\ got = <<>>
  /\ mainPc = "single"

(* The two assignments of a write and of a read. *)
Enqueue(value) ==
  /\ buf' = [buf EXCEPT ![Slot(head)] = value]
  /\ head' = Wrapped(head + 1)
  /\ UNCHANGED <<tail, got>>

Dequeue ==
  /\ got' = Append(got, buf[Slot(tail)])
  /\ tail' = Wrapped(tail + 1)
  /\ UNCHANGED <<buf, head>>

-----------------------------------------------------------------------------
(* ring_try_write and ring_try_read, called by main alone; on a full or an *)
(* empty ring they change nothing.                                         *)
TryWrite ==
  /\ mainPc = "single" /\ tried < NTries
  /\ ~Full
  /\ Enqueue(tried)
  /\ tried' = tried + 1
  /\ UNCHANGED <<owner, pc, i, mainPc>>

TryRead ==
  /\ mainPc = "single"
  /\ ~Empty
  /\ Dequeue
  /\ UNCHANGED <<owner, pc, i, tried, mainPc>>

(* test_two_threads starts on the drained ring: create the consumer, ... *)
CreateConsumer ==
  /\ mainPc = "single" /\ Empty
  /\ pc' = [pc EXCEPT !["cons"] = "lock"]
  /\ mainPc' = "create"
  /\ UNCHANGED <<ringVars, owner, i, tried>>

CreateProducer ==
  /\ mainPc = "create"
  /\ pc' = [pc EXCEPT !["prod"] = "lock"]
  /\ mainPc' = "join"
  /\ UNCHANGED <<ringVars, owner, i, tried>>

(* ... or exit(1); *)
CreateFails ==
  /\ mainPc = "create" \/ (mainPc = "single" /\ Empty)
  /\ mainPc' = "failed"
  /\ UNCHANGED <<ringVars, owner, pc, i, tried>>

(* join both, kill_ring. *)
Join ==
  /\ mainPc = "join"
  /\ \A t \in Threads : pc[t] = "done"
  /\ mainPc' = "killed"
  /\ UNCHANGED <<ringVars, owner, pc, i, tried>>

-----------------------------------------------------------------------------
Running == mainPc \in {"create", "join"}

(* pthread_mutex_lock, also at the end of pthread_cond_wait *)
Lock(t) ==
  /\ Running /\ pc[t] \in {"lock", "relock"}
  /\ owner = {}
  /\ owner' = {t}
  /\ pc' = [pc EXCEPT ![t] = "test"]
  /\ UNCHANGED <<ringVars, i, tried, mainPc>>

(* pthread_cond_wait: unlock and wait. *)
CondWait(t) ==
  /\ owner' = owner \ {t}
  /\ pc' = [pc EXCEPT ![t] = "waiting"]
  /\ UNCHANGED ringVars

(* pthread_cond_signal by t: the other thread, if it waits, leaves. *)
CondSignal(t, other) ==
  pc' = [pc EXCEPT ![t] = "unlock", ![other] = IF @ = "waiting" THEN "relock" ELSE @]

SpuriousWakeup(t) ==
  /\ Running /\ pc[t] = "waiting"
  /\ pc' = [pc EXCEPT ![t] = "relock"]
  /\ UNCHANGED <<ringVars, owner, i, tried, mainPc>>

(* ring_write, with the lock held *)
WriteUnsignalled ==
  /\ Running /\ pc["prod"] = "test"
  /\ \/ Full /\ CondWait("prod")
     \/ ~Full /\ Enqueue(i["prod"]) /\ pc' = [pc EXCEPT !["prod"] = "unlock"] /\ owner' = owner
  /\ UNCHANGED <<i, tried, mainPc>>

Write ==
  /\ Running /\ pc["prod"] = "test"
  /\ \/ Full /\ CondWait("prod")
     \/ ~Full /\ Enqueue(i["prod"]) /\ CondSignal("prod", "cons") /\ owner' = owner
  /\ UNCHANGED <<i, tried, mainPc>>

(* ring_read, with the lock held; the consumer's check is InOrder. *)
ReadWithoutTest ==
  /\ Running /\ pc["cons"] = "test"
  /\ Dequeue /\ CondSignal("cons", "prod") /\ owner' = owner
  /\ UNCHANGED <<i, tried, mainPc>>

Read ==
  /\ Running /\ pc["cons"] = "test"
  /\ \/ Empty /\ CondWait("cons")
     \/ ~Empty /\ Dequeue /\ CondSignal("cons", "prod") /\ owner' = owner
  /\ UNCHANGED <<i, tried, mainPc>>

(* pthread_mutex_unlock, and the i++ of the caller's loop *)
Unlock(t) ==
  /\ Running /\ pc[t] = "unlock"
  /\ owner' = owner \ {t}
  /\ i' = [i EXCEPT ![t] = @ + 1]
  /\ pc' = [pc EXCEPT ![t] = Loop(i[t] + 1)]
  /\ UNCHANGED <<ringVars, tried, mainPc>>

-----------------------------------------------------------------------------
Producer == Lock("prod") \/ Write \/ Unlock("prod")
Consumer == Lock("cons") \/ Read \/ Unlock("cons")
Main == CreateConsumer \/ CreateProducer \/ Join

Next ==
  \/ Producer \/ Consumer \/ Main \/ CreateFails
  \/ TryWrite \/ TryRead
  \/ \E t \in Threads : SpuriousWakeup(t)

Spec == Init /\ [][Next]_vars

(* main drains the ring and goes on; threads that can run do; and spurious *)
(* wakeups, which could keep the lock from the other thread, end.          *)
Fairness ==
  /\ WF_vars(Producer) /\ WF_vars(Consumer) /\ WF_vars(Main) /\ WF_vars(TryRead)
  /\ <>[][\A t \in Threads : ~SpuriousWakeup(t)]_vars

FairSpec == Spec /\ Fairness

-----------------------------------------------------------------------------
(* Every item crosses the ring: main gets past both joins. *)
Ended == mainPc \in {"killed", "failed"}

Contents == [j \in 1..Wrapped(head - tail) |-> buf[Slot(tail + j - 1)]]

Fifo == INSTANCE BoundedFifo WITH
          Values <- 0..(IF NTries > NItems THEN NTries - 1 ELSE NItems - 1), queue <- Contents

(* What keeps it one: the indices stay within the ring's size of each      *)
(* other, and a producer that is not done has an item left to write.       *)
Labels == {"unborn", "lock", "test", "waiting", "relock", "unlock", "done"}

RingInv ==
  /\ buf \in [Slots -> Int] /\ head \in 0..(Wrap - 1) /\ tail \in 0..(Wrap - 1)
  /\ Wrapped(head - tail) <= Capacity

LoopInv ==
  /\ tried \in Nat /\ i \in [Threads -> Nat] /\ pc \in [Threads -> Labels]
  /\ pc["prod"] # "done" => i["prod"] < NItems
  /\ mainPc \in {"single", "create"} => pc["prod"] = "unborn"

IndInv == RingInv /\ LoopInv

(* The ring is a bounded queue under both the non-blocking and the         *)
(* blocking operations, also when the indices wrap.                        *)
ImplementsBoundedFifo == Fifo!Spec
=============================================================================
